---- MODULE Spec2Model ----
(***************************************************************************)
(* Model of the evaluation execution engine of waza (src/waza/runner.py):  *)
(* EvalRunner.run_async, _run_tasks_sequential, _run_tasks_parallel,       *)
(* _run_task and _run_trial, with the TrialResult / TaskResult properties  *)
(* of src/waza/schemas/results.py and the executors of src/waza/executors. *)
(*                                                                         *)
(* The runner is cooperative asyncio code: a coroutine only yields at an   *)
(* await.  The one await that suspends inside a task is the executor call  *)
(* of _run_trial (graders are synchronous), so the actions below are the   *)
(* code between two such suspension points.                                *)
(***************************************************************************)
EXTENDS Integers, Sequences, FiniteSets, TLC

\* ------------------------------------------------------------------ bounds
MaxTasks == 2
MaxTrials == 2
MaxWorkers == 2
MaxRawScore == 6      \* an LLM judge answers with a raw score in 0..MaxRawScore
MaxPatterns == 2      \* required / forbidden patterns of a tool-call grader
MaxCalls == 2         \* tool calls recorded in a transcript, and max_calls
MaxResults == 3       \* task results handed to a metric
MaxMetrics == 2       \* metrics combined into a composite
MaxScores == 3        \* trials whose scores are folded into a TaskAggregate
MaxAssertions == 3    \* assertions of a code grader
MaxMessages == 2      \* messages a client sends to the JSON-RPC server

\* ------------------------------------------------------- python dict helpers
EmptyDict == [x \in {} |-> FALSE]

\* d[k] = v of a Python dict: a later assignment to the same key replaces the
\* earlier value
DictPut(d, k, v) == [x \in (DOMAIN d) \cup {k} |-> IF x = k THEN v ELSE d[x]]

\* ------------------------------------------------------------ configuration
\* What an executor's execute() can do on one call.
\*   ok               ExecutionResult(success=True)
\*   failed           ExecutionResult(success=False, error=...)   (skill error)
\*   session_timeout  CopilotExecutor: wait_for timed out, error="Session timed out ..."
\*   raise            execute raised an Exception (client start-up outside the try)
\*   raise_timeout    execute raised TimeoutError
\* MockExecutor as _create_executor builds it has success_rate 1.0 and always
\* succeeds; CopilotExecutor can do all of them.
ExecOutcomes(executor) ==
    IF executor = "mock" THEN {"ok"}
    ELSE {"ok", "failed", "session_timeout", "raise", "raise_timeout"}

\* ExecutionResult.error for an outcome that returns
ExecError(o) ==
    CASE o = "failed" -> "Simulated failure"
      [] o = "session_timeout" -> "Session timed out"
      [] OTHER -> "None"

\* What one grader's construction + grade(context) can do: return a result
\* that passed or not, raise an Exception, raise TimeoutError; "pending" is
\* what HumanGrader.grade and HumanCalibrationGrader.grade return
Verdicts == {"pass", "fail", "raise", "raise_timeout", "pending"}

\* ------------------------------------------------------------------ scores
\* A score is a Python float; the model keeps it exact, as the fraction n/d
\* with d > 0
Frac(n, d) == [n |-> n, d |-> d]

Leq(a, b) == a.n * b.d <= b.n * a.d

Eq(a, b) == a.n * b.d = b.n * a.d

RECURSIVE GCD(_, _)
GCD(a, b) == IF b = 0 THEN a ELSE GCD(b, a % b)

\* n/d in lowest terms
Reduced(n, d) ==
    LET g == GCD(IF n < 0 THEN -n ELSE n, d)
    IN  IF g = 0 THEN Frac(n, d) ELSE Frac(n \div g, d \div g)

FracAdd(a, b) == Reduced(a.n * b.d + b.n * a.d, a.d * b.d)

FracMul(a, b) == Reduced(a.n * b.n, a.d * b.d)

\* a / b for b > 0
FracDiv(a, b) == Reduced(a.n * b.d, a.d * b.n)

\* sum(...) over a list of scores
RECURSIVE FracSum(_)
FracSum(qs) == IF qs = <<>> THEN Frac(0, 1) ELSE FracAdd(Head(qs), FracSum(Tail(qs)))

\* Field(ge=0.0, le=1.0)
InUnit(q) == q.n >= 0 /\ q.n <= q.d

\* results.py 11-20: GraderResult(score=..., passed=...) validates
\* 0 <= score <= 1 and raises ValidationError otherwise
NewGraderResult(score, passed) ==
    IF InUnit(score) THEN [raised |-> FALSE, score |-> score, passed |-> passed]
    ELSE [raised |-> TRUE, error |-> "ValidationError"]

\* llm_graders.py 72-89: the judge's raw score, normalized from 1..5 to 0..1;
\* threshold is config["threshold"], here in quarters (default 0.75)
normalized_score(raw_score) == Frac(raw_score - 1, 4)

LLMGrade(raw_score, threshold) ==
    NewGraderResult(normalized_score(raw_score),
                    Leq(Frac(threshold, 4), normalized_score(raw_score)))

\* code_graders.py 174-176: the failures of a tool-call grader: missing
\* required patterns, forbidden patterns found, and too many calls
\* (max_calls = -1 stands for None)
ToolCallFailures(a) ==
    a.missing + a.found
        + (IF a.max_calls # -1 /\ a.calls > a.max_calls THEN 1 ELSE 0)

\* code_graders.py 178: `1 if max_calls else 0` is 0 for None and for 0
total_checks(a) ==
    a.required + a.forbidden + (IF a.max_calls # -1 /\ a.max_calls # 0 THEN 1 ELSE 0)

\* code_graders.py 178-195
ToolCallGrade(a) ==
    LET passed_checks == total_checks(a) - ToolCallFailures(a)
        score == IF total_checks(a) > 0 THEN Frac(passed_checks, total_checks(a))
                 ELSE Frac(1, 1)
    IN  NewGraderResult(score, ToolCallFailures(a) = 0)

\* ------------------------------------------------------------- TrialResult
\* GraderResult, reduced to the field the runner reads and to whether
\* details["status"] marks it as pending review (human_graders.py 26-40: a
\* pending result has passed=False)
GraderResult(v) == [passed |-> (v = "pass"), pending |-> (v = "pending")]

\* runner.py 433-445: the suite graders, then the task graders, each result
\* stored under the grader's name.  names: the grader names in call order,
\* v: what each call does.  Returns the dict, or the exception that ended it.
RECURSIVE RunGraders(_, _, _, _)
RunGraders(names, v, i, acc) ==
    IF i > Len(names) THEN [exc |-> "None", results |-> acc]
    ELSE IF v[i] = "raise" THEN [exc |-> "Exception", results |-> acc]
    ELSE IF v[i] = "raise_timeout" THEN [exc |-> "TimeoutError", results |-> acc]
    ELSE RunGraders(names, v, i + 1, DictPut(acc, names[i], GraderResult(v[i])))

\* runner.py 455-456
AllPassed(grader_results) ==
    IF DOMAIN grader_results = {} THEN TRUE
    ELSE \A g \in DOMAIN grader_results : grader_results[g].passed

\* runner.py 458-466
GradedTrial(trial_num, grader_results) ==
    [trial_id |-> trial_num,
     status |-> IF AllPassed(grader_results) THEN "passed" ELSE "failed",
     grader_results |-> grader_results,
     error |-> "None"]

\* runner.py 468-475
TimeoutTrial(trial_num) ==
    [trial_id |-> trial_num, status |-> "timeout",
     grader_results |-> EmptyDict, error |-> "Trial timed out"]

\* runner.py 476-483; error = str(e)
ErrorTrial(trial_num, msg) ==
    [trial_id |-> trial_num, status |-> "error",
     grader_results |-> EmptyDict, error |-> msg]

\* as HandleException, without the handler for TimeoutError
HandleExceptionMutant(trial_num, exc, msg) == ErrorTrial(trial_num, msg)

\* The exception handlers of _run_trial
HandleException(trial_num, exc, msg) ==
    IF exc = "TimeoutError" THEN TimeoutTrial(trial_num)
    ELSE ErrorTrial(trial_num, msg)

\* runner.py 320-483 after the executor call has ended with outcome o
RunTrial(trial_num, names, o, v) ==
    IF o = "raise" THEN HandleException(trial_num, "Exception", "executor exception")
    ELSE IF o = "raise_timeout" THEN HandleException(trial_num, "TimeoutError", "")
    ELSE LET g == RunGraders(names, v, 1, EmptyDict)
         IN  IF g.exc = "None" THEN GradedTrial(trial_num, g.results)
             ELSE HandleException(trial_num, g.exc, "grader exception")

\* results.py 61-66
TrialPassed(t) ==
    IF DOMAIN t.grader_results = {} THEN t.status = "passed"
    ELSE \A g \in DOMAIN t.grader_results : t.grader_results[g].passed

\* -------------------------------------------------------------- TaskResult
PassedTrials(trials) == Cardinality({k \in 1..Len(trials) : TrialPassed(trials[k])})

\* as TaskStatus, with "partial" only from two passed trials on
TaskStatusMutant(trials) ==
    IF PassedTrials(trials) = Len(trials) THEN "passed"
    ELSE IF PassedTrials(trials) > 1 THEN "partial"
    ELSE "failed"

\* runner.py 301-308
TaskStatus(trials) ==
    IF PassedTrials(trials) = Len(trials) THEN "passed"
    ELSE IF PassedTrials(trials) > 0 THEN "partial"
    ELSE "failed"

\* as TaskResult, with status "error" for a task none of whose trials ran
\* to a graded end
TaskResultMutant(task, trials) ==
    [id |-> task,
     status |-> IF \A k \in 1..Len(trials) : trials[k].status \in {"error", "timeout"}
                THEN "error" ELSE TaskStatus(trials),
     trials |-> trials]

\* runner.py 310-318
TaskResult(task, trials) ==
    [id |-> task, status |-> TaskStatus(trials), trials |-> trials]

\* no computation is being followed on its own
NoCalc == [fn |-> "None"]

\* the value of "no TaskResult yet" (task ids start at 1)
NoResult == [id |-> 0, status |-> "None", trials |-> <<>>]

\* ------------------------------------------------------------------- state
VARIABLES
    cfg,         \* spec.config, the graders and the task list of this run
    pc,          \* run_async: "running", "break" (fail-fast left the loop),
                 \*            "returned", "raised"
    phase,       \* per task coroutine: "pending", "loop" (in _run_task between
                 \*   trials), "await" (suspended in the executor call), "done",
                 \*   "raised", "cancelled"
    trials,      \* per task: the local list `trials` of _run_task
    inflight,    \* per task: trial numbers whose _run_trial has started and not ended
    taskResult,  \* per task: what _run_task returned, NoResult before that
    results,     \* the list _run_tasks_sequential builds / gather returns
    sem,         \* free slots of the asyncio.Semaphore of _run_tasks_parallel
    completed,   \* the nonlocal counter of _run_tasks_parallel
    events,      \* per task: the _report_progress calls made for it, in order
    inputs,      \* per task and trial: what the executor call and the grader
                 \*   calls of that trial did (history, not read by the runner)
    calc,        \* a grader or metric computation on its own: the function, its
                 \*   arguments and, once it has run, what it returned or raised
    rpc          \* the JSON-RPC server: its transport (messages to read, messages
                 \*   written), whether serve is still looping, and the run its
                 \*   RunManager holds

vars == <<cfg, pc, phase, trials, inflight, taskResult, results, sem, completed,
          events, inputs, calc, rpc>>

Tasks == 1..cfg.n_tasks

\* the grader names in the order _run_trial calls them: self._graders, then
\* task.graders
GraderNames == cfg.suite \o cfg.task_graders

\* what the grader calls of one trial may do, in call order
GraderBehaviours ==
    {v \in [1..Len(GraderNames) -> Verdicts] :
        \A j \in 1..Len(GraderNames) :
            v[j] \in (IF j <= Len(cfg.suite) THEN cfg.suite_verdicts
                      ELSE cfg.task_verdicts)}

\* the grader calls that were made: every call up to and including the first
\* that raised
RECURSIVE Ran(_, _)
Ran(v, i) ==
    IF i > Len(v) THEN <<>>
    ELSE IF v[i] \in {"raise", "raise_timeout"} THEN <<v[i]>>
    ELSE <<v[i]>> \o Ran(v, i + 1)

\* the record of one trial's executor outcome and grader calls
TrialInput(o, v) ==
    [exec |-> o, ran |-> IF o \in {"raise", "raise_timeout"} THEN <<>> ELSE Ran(v, 1)]

\* --------------------------------------------------------------- progress
Ev(event, task_num, trial_num, status) ==
    [event |-> event, task_num |-> task_num, trial_num |-> trial_num, status |-> status]

\* a "message" call has no task_num or status; its details carry a role
Message(trial_num, role) ==
    [event |-> "message", task_num |-> 0, trial_num |-> trial_num, status |-> role]

\* as TrialCompleteEvent, without the status argument
TrialCompleteEventMutant(i, k, t) == Ev("trial_complete", i, k, "None")

\* runner.py 290-299: trial_complete carries the trial's status
TrialCompleteEvent(i, k, t) == Ev("trial_complete", i, k, t.status)

\* as TaskCompleteEvent, reporting the count as it was before the increment
TaskCompleteEventMutant(num, r) == Ev("task_complete", num - 1, 0, r.status)

\* runner.py 226-234 / 259-266: task_complete carries the task's status; num is
\* the task's index (sequential) or the completion count (parallel)
TaskCompleteEvent(num, r) == Ev("task_complete", num, 0, r.status)

\* runner.py 379-399: one "message" per assistant.message / tool.* event of the
\* result; MockExecutor._generate_events yields tool start, tool complete,
\* assistant message on success and no events on failure
ResultMessages(o, k) ==
    IF o = "ok"
    THEN <<Message(k, "tool"), Message(k, "tool"), Message(k, "assistant")>>
    ELSE <<>>

\* ------------------------------------------------------------------- Init
\* The grader set-ups explored, as (suite graders, task graders): none, a suite
\* grader, a suite and a task grader, a task grader named like the suite grader
GraderSetups ==
    {<< <<>>, <<>> >>, << <<"g1">>, <<>> >>, << <<"g1">>, <<"t1">> >>,
     << <<"g1">>, <<"g1">> >>}

\* What the executor and the graders of one run may do: the executor succeeds
\* or does one other thing, the suite graders and the task graders each answer
\* with at most two verdicts, and a run varies one of the three
VerdictSets ==
    {{"pass"}, {"fail"}, {"pass", "fail"}, {"pass", "raise"}, {"pass", "raise_timeout"},
     {"raise", "raise_timeout"}}

Environments ==
    {e \in [executor : {"copilot-sdk"},
            execs : SUBSET ExecOutcomes("copilot-sdk"),
            suite_verdicts : VerdictSets, task_verdicts : VerdictSets] :
        /\ "ok" \in e.execs
        /\ Cardinality(e.execs) * Cardinality(e.suite_verdicts)
               * Cardinality(e.task_verdicts) <= 2}

\* the environment of test_runner.py: the default MockExecutor and graders that
\* pass or fail
PlainEnvironment ==
    [executor |-> "mock", execs |-> ExecOutcomes("mock"),
     suite_verdicts |-> {"pass", "fail"}, task_verdicts |-> {"pass", "fail"}]

Config(p, ff, w, t, n, g, e) ==
    [parallel |-> p, fail_fast |-> ff, max_workers |-> w, trials_per_task |-> t,
     n_tasks |-> n, executor |-> e.executor, execs |-> e.execs,
     suite_verdicts |-> e.suite_verdicts, task_verdicts |-> e.task_verdicts,
     suite |-> g[1], task_graders |-> g[2]]

\* eval_spec.py 54-58: trials_per_task >= 1, max_workers >= 1
PlainConfigs ==
    {Config(p, ff, w, t, n, << <<"g1">>, <<>> >>, PlainEnvironment) :
        p \in BOOLEAN, ff \in BOOLEAN, w \in 1..MaxWorkers, t \in 1..MaxTrials,
        n \in 0..MaxTasks}

\* both modes, with graders that all pass or all fail in one run
CallbackConfigs ==
    {Config(p, ff, w, t, n, << <<"g1">>, <<>> >>,
            [PlainEnvironment EXCEPT !.suite_verdicts = {vd}]) :
        p \in BOOLEAN, ff \in BOOLEAN, w \in 1..MaxWorkers, t \in 1..MaxTrials,
        n \in 0..MaxTasks, vd \in {"pass", "fail"}}

\* an automated suite grader that passes or fails, and a human task grader
HumanEnvironment ==
    [executor |-> "mock", execs |-> ExecOutcomes("mock"),
     suite_verdicts |-> {"pass", "fail"}, task_verdicts |-> {"pending"}]

HumanConfigs ==
    {Config(p, ff, w, t, n, << <<"g1">>, <<"h1">> >>, HumanEnvironment) :
        p \in BOOLEAN, ff \in BOOLEAN, w \in 1..MaxWorkers, t \in 1..MaxTrials,
        n \in 0..MaxTasks}

SequentialConfigs ==
    {Config(FALSE, ff, 1, t, n, g, e) :
        ff \in BOOLEAN, t \in 1..MaxTrials, n \in 0..MaxTasks, g \in GraderSetups,
        e \in Environments}

\* the runner's variables at the start of a run over configuration c
InitRun(c) ==
    /\ cfg = c
    /\ pc = "running"
    /\ phase = [i \in 1..c.n_tasks |-> "pending"]
    /\ trials = [i \in 1..c.n_tasks |-> <<>>]
    /\ inflight = [i \in 1..c.n_tasks |-> {}]
    /\ taskResult = [i \in 1..c.n_tasks |-> NoResult]
    /\ results = <<>>
    /\ sem = c.max_workers
    /\ completed = 0
    /\ events = [i \in 1..c.n_tasks |-> <<>>]
    /\ inputs = [i \in 1..c.n_tasks |-> <<>>]

\* no JSON-RPC server has been started
NoServer == [running |-> FALSE]

InitWith(c) == InitRun(c) /\ calc = NoCalc /\ rpc = NoServer

\* no run is going on: a grader or metric function is called on its own
NoRun == Config(FALSE, FALSE, 1, 1, 0, << <<>>, <<>> >>, PlainEnvironment)

runVars == <<cfg, pc, phase, trials, inflight, taskResult, results, sem, completed,
             events, inputs>>

\* a call of function fn with arguments arg that has not run yet
Call(fn, arg) == [fn |-> fn, arg |-> arg, done |-> FALSE, out |-> "None"]

\* call: calc is one of the calls followed
InitCalc(call) == InitRun(NoRun) /\ call /\ rpc = NoServer

\* the call returns (or raises) out
Return(fn, out) ==
    /\ calc.fn = fn
    /\ ~calc.done
    /\ calc' = [calc EXCEPT !.done = TRUE, !.out = out]
    /\ UNCHANGED <<runVars, rpc>>

Init == \E c \in PlainConfigs : InitWith(c)

InitCb == \E c \in CallbackConfigs : InitWith(c)

InitTrial == \E c \in SequentialConfigs : InitWith(c)

InitHuman == \E c \in HumanConfigs : InitWith(c)

\* ---------------------------------------------------------------- actions
\* runner.py 215-223: the sequential loop takes the next task of the list
SeqNextTask(i) == Len(results) + 1

SeqStartTask ==
    /\ ~cfg.parallel
    /\ pc = "running"
    /\ Len(results) < cfg.n_tasks
    /\ LET i == SeqNextTask(0) IN
        /\ phase[i] = "pending"
        /\ phase' = [phase EXCEPT ![i] = "loop"]
        /\ events' = [events EXCEPT ![i] = Append(@, Ev("task_start", i, 0, "None"))]
    /\ UNCHANGED <<rpc, calc, cfg, pc, trials, inflight, taskResult, results, sem, completed, inputs>>

\* runner.py 248-256: async with semaphore, then task_start
CanAcquire(s) == s > 0

AcquireSlot(i) ==
    /\ cfg.parallel
    /\ phase[i] = "pending"
    /\ CanAcquire(sem)
    /\ sem' = sem - 1
    /\ phase' = [phase EXCEPT ![i] = "loop"]
    /\ events' = [events EXCEPT ![i] = Append(@, Ev("task_start", i, 0, "None"))]
    /\ UNCHANGED <<rpc, calc, cfg, pc, trials, inflight, taskResult, results, completed, inputs>>

\* runner.py 277: range(1, total_trials + 1)
MoreTrials(done, total_trials) == done < total_trials

\* as AfterTrialStart, for a loop that starts _run_trial without awaiting it
AfterTrialStartMutant == "loop"

\* what the coroutine does after starting a trial: it awaits _run_trial
AfterTrialStart == "await"

\* runner.py 277-287 and 320-370: trial_start, the user message, then the
\* executor call, where the coroutine suspends
StartTrial(i) ==
    /\ phase[i] = "loop"
    /\ MoreTrials(Len(trials[i]), cfg.trials_per_task)
    /\ LET k == Len(trials[i]) + Cardinality(inflight[i]) + 1 IN
        /\ k <= cfg.trials_per_task
        /\ inflight' = [inflight EXCEPT ![i] = @ \cup {k}]
        /\ events' = [events EXCEPT ![i] =
                @ \o <<Ev("trial_start", i, k, "None"), Message(k, "user")>>]
    /\ phase' = [phase EXCEPT ![i] = AfterTrialStart]
    /\ UNCHANGED <<rpc, calc, cfg, pc, trials, taskResult, results, sem, completed, inputs>>

\* runner.py 371-483 and 288-299: the executor call ends, the graders run,
\* the TrialResult is appended and trial_complete is reported
FinishTrial(i) ==
    /\ phase[i] = "await"
    /\ inflight[i] # {}
    /\ \E o \in cfg.execs :
       \E v \in GraderBehaviours :
       LET k == CHOOSE x \in inflight[i] : \A y \in inflight[i] : x <= y
           t == RunTrial(k, GraderNames, o, v)
       IN  /\ trials' = [trials EXCEPT ![i] = Append(@, t)]
           /\ inflight' = [inflight EXCEPT ![i] = @ \ {k}]
           /\ events' = [events EXCEPT ![i] =
                   @ \o ResultMessages(o, k) \o <<TrialCompleteEvent(i, k, t)>>]
           /\ inputs' = [inputs EXCEPT ![i] = Append(@, TrialInput(o, v))]
    /\ phase' = [phase EXCEPT ![i] = "loop"]
    /\ UNCHANGED <<rpc, calc, cfg, pc, taskResult, results, sem, completed>>

\* as FailFastBreak, stopping at every task that did not fully pass
FailFastBreakMutant(fail_fast, status) == fail_fast /\ status # "passed"

\* runner.py 236-237
FailFastBreak(fail_fast, status) == fail_fast /\ status = "failed"

\* runner.py 301-318 and 224-237: _run_task returns, the sequential loop
\* appends the result, reports task_complete and may break
SeqFinishTask(i) ==
    /\ ~cfg.parallel
    /\ pc = "running"
    /\ phase[i] = "loop"
    /\ ~MoreTrials(Len(trials[i]), cfg.trials_per_task)
    /\ LET r == TaskResult(i, trials[i]) IN
        /\ taskResult' = [taskResult EXCEPT ![i] = r]
        /\ results' = Append(results, r)
        /\ events' = [events EXCEPT ![i] = Append(@, TaskCompleteEvent(i, r))]
        /\ pc' = IF FailFastBreak(cfg.fail_fast, r.status) THEN "break" ELSE "running"
    /\ phase' = [phase EXCEPT ![i] = "done"]
    /\ UNCHANGED <<rpc, calc, cfg, trials, inflight, sem, completed, inputs>>

\* runner.py 238: the loop is exhausted or was left by break
SeqReturn ==
    /\ ~cfg.parallel
    /\ \/ pc = "break"
       \/ pc = "running" /\ Len(results) = cfg.n_tasks
    /\ pc' = "returned"
    /\ UNCHANGED <<rpc, calc, cfg, phase, trials, inflight, taskResult, results, sem, completed,
                   events, inputs>>

\* as Release, for a slot that is never given back
ReleaseMutant(s) == s

\* what leaving `async with semaphore` does to the free slots
Release(s) == s + 1

\* runner.py 301-318 and 257-268: _run_task returns, completed += 1,
\* task_complete, the slot is released
ParFinishTask(i) ==
    /\ cfg.parallel
    /\ phase[i] = "loop"
    /\ ~MoreTrials(Len(trials[i]), cfg.trials_per_task)
    /\ LET r == TaskResult(i, trials[i]) IN
        /\ taskResult' = [taskResult EXCEPT ![i] = r]
        /\ completed' = completed + 1
        /\ events' = [events EXCEPT ![i] =
                Append(@, TaskCompleteEvent(completed + 1, r))]
    /\ sem' = Release(sem)
    /\ phase' = [phase EXCEPT ![i] = "done"]
    /\ UNCHANGED <<rpc, calc, cfg, pc, trials, inflight, results, inputs>>

\* as GatherReady, for a parallel run that fail-fast ends at the first failed task
GatherReadyMutant ==
    \/ \A i \in Tasks : phase[i] = "done"
    \/ cfg.fail_fast /\ \E i \in Tasks : taskResult[i].status = "failed"

\* runner.py 270: gather returns the results in the order of the task list
\* once every coroutine has returned
GatherReady == \A i \in Tasks : phase[i] = "done"

ParReturn ==
    /\ cfg.parallel
    /\ pc = "running"
    /\ GatherReady
    /\ results' = [i \in Tasks |-> taskResult[i]]
    /\ pc' = "returned"
    /\ UNCHANGED <<rpc, calc, cfg, phase, trials, inflight, taskResult, sem, completed, events, inputs>>

\* runner.py 210-238 as a function of what each task's trials do: outcome[j] is
\* the list of TrialResults task j yields, n the number of tasks
RECURSIVE SequentialResults(_, _, _, _, _)
SequentialResults(outcome, n, fail_fast, j, acc) ==
    IF j > n THEN acc
    ELSE LET r == TaskResult(j, outcome[j])
         IN  IF FailFastBreak(fail_fast, r.status) THEN Append(acc, r)
             ELSE SequentialResults(outcome, n, fail_fast, j + 1, Append(acc, r))

Next ==
    \/ SeqStartTask
    \/ \E i \in Tasks : AcquireSlot(i)
    \/ \E i \in Tasks : StartTrial(i)
    \/ \E i \in Tasks : FinishTrial(i)
    \/ \E i \in Tasks : SeqFinishTask(i)
    \/ SeqReturn
    \/ \E i \in Tasks : ParFinishTask(i)
    \/ ParReturn

Spec == Init /\ [][Next]_vars

\* both schedulers, each trial graded by an automated and a human grader
SpecHuman == InitHuman /\ [][Next]_vars

\* the sequential scheduler alone, under every environment
NextSequential ==
    \/ SeqStartTask
    \/ \E i \in Tasks : StartTrial(i)
    \/ \E i \in Tasks : FinishTrial(i)
    \/ \E i \in Tasks : SeqFinishTask(i)
    \/ SeqReturn

SpecTrial == InitTrial /\ [][NextSequential]_vars

\* ------------------------------------------- a progress callback that raises
\* runner.py 91-94: _report_progress calls the callback unguarded, so what the
\* callback raises is raised at the call.  The calls below lie outside the
\* try of _run_trial, so the exception leaves _run_task: in parallel mode `async with` releases the slot and gather
\* hands the first exception to run_async, in sequential mode the loop ends.
TaskRaises(i, slots) ==
    /\ phase' = [phase EXCEPT ![i] = "raised"]
    /\ pc' = IF pc = "running" THEN "raised" ELSE pc
    /\ sem' = IF cfg.parallel THEN Release(slots) ELSE slots

\* runner.py 216 / 249: the task_start call raises
TaskStartRaises(i) ==
    /\ phase[i] = "pending"
    /\ IF cfg.parallel THEN CanAcquire(sem)
       ELSE pc = "running" /\ Len(results) < cfg.n_tasks /\ i = SeqNextTask(0)
    /\ events' = [events EXCEPT ![i] = Append(@, Ev("task_start", i, 0, "None"))]
    /\ TaskRaises(i, IF cfg.parallel THEN sem - 1 ELSE sem)
    /\ UNCHANGED <<rpc, calc, cfg, trials, inflight, taskResult, results, completed, inputs>>

\* runner.py 278: the trial_start call raises
TrialStartRaises(i) ==
    /\ phase[i] = "loop"
    /\ MoreTrials(Len(trials[i]), cfg.trials_per_task)
    /\ events' = [events EXCEPT ![i] =
            Append(@, Ev("trial_start", i, Len(trials[i]) + 1, "None"))]
    /\ TaskRaises(i, sem)
    /\ UNCHANGED <<rpc, calc, cfg, trials, inflight, taskResult, results, completed, inputs>>

\* runner.py 290: the trial_complete call raises
TrialCompleteRaises(i) ==
    /\ phase[i] = "await"
    /\ inflight[i] # {}
    /\ \E o \in cfg.execs :
       \E v \in GraderBehaviours :
       LET k == CHOOSE x \in inflight[i] : \A y \in inflight[i] : x <= y
           t == RunTrial(k, GraderNames, o, v)
       IN  /\ trials' = [trials EXCEPT ![i] = Append(@, t)]
           /\ inflight' = [inflight EXCEPT ![i] = @ \ {k}]
           /\ events' = [events EXCEPT ![i] =
                   @ \o ResultMessages(o, k) \o <<TrialCompleteEvent(i, k, t)>>]
           /\ inputs' = [inputs EXCEPT ![i] = Append(@, TrialInput(o, v))]
    /\ TaskRaises(i, sem)
    /\ UNCHANGED <<rpc, calc, cfg, taskResult, results, completed>>

\* runner.py 226 / 259: the task_complete call raises, after the result was
\* appended (sequential) or counted (parallel)
TaskCompleteRaises(i) ==
    /\ phase[i] = "loop"
    /\ ~MoreTrials(Len(trials[i]), cfg.trials_per_task)
    /\ cfg.parallel \/ pc = "running"
    /\ LET r == TaskResult(i, trials[i]) IN
        /\ taskResult' = [taskResult EXCEPT ![i] = r]
        /\ results' = IF cfg.parallel THEN results ELSE Append(results, r)
        /\ completed' = IF cfg.parallel THEN completed + 1 ELSE completed
        /\ events' = [events EXCEPT ![i] = Append(@,
                TaskCompleteEvent(IF cfg.parallel THEN completed + 1 ELSE i, r))]
    /\ TaskRaises(i, sem)
    /\ UNCHANGED <<rpc, calc, cfg, trials, inflight, inputs>>

\* runner.py 153-155: once run_async has raised, asyncio.run cancels the
\* coroutines gather left running; CancelledError is raised at their await
\* (the semaphore, or the executor call) and is no Exception, so _run_trial
\* does not catch it and `async with` releases a held slot
Cancel(i) ==
    /\ cfg.parallel
    /\ pc = "raised"
    /\ phase[i] \in {"pending", "await"}
    /\ phase' = [phase EXCEPT ![i] = "cancelled"]
    /\ sem' = IF phase[i] = "await" THEN Release(sem) ELSE sem
    /\ inflight' = [inflight EXCEPT ![i] = {}]
    /\ UNCHANGED <<rpc, calc, cfg, pc, trials, taskResult, results, completed, events, inputs>>

NextCb ==
    \/ SeqStartTask
    \/ \E i \in Tasks : AcquireSlot(i)
    \/ \E i \in Tasks : StartTrial(i)
    \/ \E i \in Tasks : FinishTrial(i)
    \/ \E i \in Tasks : SeqFinishTask(i)
    \/ SeqReturn
    \/ \E i \in Tasks : ParFinishTask(i)
    \/ ParReturn
    \/ \E i \in Tasks : TaskStartRaises(i)
    \/ \E i \in Tasks : TrialStartRaises(i)
    \/ \E i \in Tasks : TrialCompleteRaises(i)
    \/ \E i \in Tasks : TaskCompleteRaises(i)
    \/ \E i \in Tasks : Cancel(i)

\* both schedulers with a progress callback that may raise on any call
SpecCb == InitCb /\ [][NextCb]_vars

\* ================================================================== claims
HasResult(i) == taskResult[i].id # 0

AllTrialsPassed(ts) == \A k \in 1..Len(ts) : TrialPassed(ts[k])
NoTrialPassed(ts) == \A k \in 1..Len(ts) : ~TrialPassed(ts[k])

\* C1: every TaskResult of a task run over its trials_per_task >= 1 trials has
\* status "passed" iff every trial's passed is true, "failed" iff no trial's
\* passed is true, and "partial" otherwise.
C1_TaskStatus ==
    \A i \in Tasks : HasResult(i) =>
        LET r == taskResult[i] IN
        /\ Len(r.trials) = cfg.trials_per_task
        /\ Len(r.trials) >= 1
        /\ (r.status = "passed") <=> AllTrialsPassed(r.trials)
        /\ (r.status = "failed") <=> NoTrialPassed(r.trials)
        /\ (r.status = "partial") <=>
               (~AllTrialsPassed(r.trials) /\ ~NoTrialPassed(r.trials))

\* a partial task one of whose trials ended in error
C1_Witness ==
    \E i \in Tasks :
        /\ HasResult(i)
        /\ taskResult[i].status = "partial"
        /\ \E k \in 1..Len(taskResult[i].trials) : taskResult[i].trials[k].status = "error"

\* the trials whose executor call returned and whose graders all returned
Returned(i, k) ==
    /\ inputs[i][k].exec \in {"ok", "failed", "session_timeout"}
    /\ Len(inputs[i][k].ran) = Len(GraderNames)
    /\ \A j \in 1..Len(inputs[i][k].ran) : inputs[i][k].ran[j] \in {"pass", "fail"}

\* C2: a trial in which the executor call and all graders return without
\* raising has status "passed" iff every grader result, suite-level and
\* task-specific, has passed=true, and "failed" otherwise ("passed" when no
\* graders are configured).
C2_StatusFromGraders ==
    \A i \in Tasks : \A k \in 1..Len(trials[i]) :
        Returned(i, k) =>
            /\ trials[i][k].status \in {"passed", "failed"}
            /\ (trials[i][k].status = "passed") <=>
                   (\A j \in 1..Len(inputs[i][k].ran) : inputs[i][k].ran[j] = "pass")

\* C3: when execute returns a result that reports failure (success=false with
\* an error string), the trial has status "error" and TrialResult.error holds
\* the executor's error.
C3_ExecutorErrorCaptured ==
    \A i \in Tasks : \A k \in 1..Len(trials[i]) :
        inputs[i][k].exec = "failed" =>
            /\ trials[i][k].status = "error"
            /\ trials[i][k].error = ExecError(inputs[i][k].exec)

\* C4: when the executor's session times out, by the agent-backed executor's
\* own session timeout or by a TimeoutError raised out of execute, the trial
\* has status "timeout" with a timeout message.
C4_TimeoutStatus ==
    \A i \in Tasks : \A k \in 1..Len(trials[i]) :
        inputs[i][k].exec \in {"session_timeout", "raise_timeout"} =>
            /\ trials[i][k].status = "timeout"
            /\ trials[i][k].error \in {"Trial timed out", "Session timed out"}

\* the trials in which the executor call or a grader raised
Raised(i, k) ==
    \/ inputs[i][k].exec \in {"raise", "raise_timeout"}
    \/ \E j \in 1..Len(inputs[i][k].ran) : inputs[i][k].ran[j] \in {"raise", "raise_timeout"}

RaisedTimeout(i, k) ==
    \/ inputs[i][k].exec = "raise_timeout"
    \/ \E j \in 1..Len(inputs[i][k].ran) : inputs[i][k].ran[j] = "raise_timeout"

\* C5 as stated: a trial in which something raised yields a TrialResult with
\* status "error" carrying the message, and the remaining trials of the task
\* and the remaining tasks of the eval still run.
C5_Original ==
    /\ \A i \in Tasks : \A k \in 1..Len(trials[i]) :
           Raised(i, k) => trials[i][k].status = "error" /\ trials[i][k].error # "None"
    /\ pc = "returned" => \A i \in Tasks : Len(trials[i]) = cfg.trials_per_task

\* the sequential run was ended by fail-fast before task i
StoppedBefore(i) ==
    cfg.fail_fast /\ \E j \in 1..(i - 1) : HasResult(j) /\ taskResult[j].status = "failed"

\* C5, amended: a trial in which an Exception was raised yields a TrialResult
\* with status "error" carrying the message, or, for a TimeoutError, status
\* "timeout" with the message "Trial timed out"; the remaining trials of the
\* task still run, and so do the remaining tasks unless fail-fast ends the
\* sequential run at a task whose status is "failed".
C5_ExceptionContained ==
    /\ \A i \in Tasks : \A k \in 1..Len(trials[i]) :
           Raised(i, k) =>
               /\ trials[i][k].grader_results = EmptyDict
               /\ IF RaisedTimeout(i, k)
                  THEN trials[i][k].status = "timeout" /\ trials[i][k].error = "Trial timed out"
                  ELSE trials[i][k].status = "error"
                       /\ trials[i][k].error \in {"executor exception", "grader exception"}
    /\ \A i \in Tasks : HasResult(i) => Len(taskResult[i].trials) = cfg.trials_per_task
    /\ pc = "returned" => \A i \in Tasks : HasResult(i) \/ StoppedBefore(i)

\* a run that returned after a first trial raised and later trials and tasks ran
C5_Witness ==
    /\ pc = "returned"
    /\ cfg.n_tasks >= 2
    /\ cfg.trials_per_task >= 2
    /\ \A i \in Tasks : HasResult(i)
    /\ Raised(1, 1)
    /\ trials[1][1].status = "error"
    /\ \E i \in Tasks : \E k \in 1..Len(trials[i]) : trials[i][k].status = "timeout"

\* the tasks that have started and not ended
Running == {i \in Tasks : phase[i] \in {"loop", "await"}}

FailedTasks == {j \in Tasks : HasResult(j) /\ taskResult[j].status = "failed"}

\* C6: in sequential mode tasks run one at a time in list order; with
\* fail_fast no task is started after the first task whose status is "failed"
\* and the returned results are those of the tasks up to and including it, in
\* list order; a "partial" or "passed" task never stops the run, and without
\* fail_fast every task runs.
C6_SequentialFailFast ==
    ~cfg.parallel =>
        /\ Cardinality(Running) <= 1
        /\ \A i \in Tasks : phase[i] # "pending" => \A j \in 1..(i - 1) : phase[j] = "done"
        /\ Len(results) <= cfg.n_tasks
        /\ \A j \in 1..Len(results) : results[j] = taskResult[j] /\ results[j].id = j
        /\ \A i \in Tasks :
               (cfg.fail_fast /\ phase[i] # "pending") =>
                   \A j \in 1..(i - 1) : taskResult[j].status # "failed"
        /\ pc = "returned" =>
               IF cfg.fail_fast /\ FailedTasks # {}
               THEN /\ FailedTasks = {Len(results)}
                    /\ \A i \in (Len(results) + 1)..cfg.n_tasks : phase[i] = "pending"
               ELSE Len(results) = cfg.n_tasks

\* a fail-fast run that returned after its first task failed, the second not started
C6_Witness ==
    /\ ~cfg.parallel
    /\ cfg.fail_fast
    /\ pc = "returned"
    /\ cfg.n_tasks >= 2
    /\ Len(results) = 1
    /\ results[1].status = "failed"
    /\ phase[2] = "pending"

\* the tasks for which task_start was reported
Started == {i \in Tasks : \E e \in 1..Len(events[i]) : events[i][e].event = "task_start"}

\* the tasks whose coroutine has ended: returned, raised or cancelled
Finished == {i \in Tasks : phase[i] \in {"done", "raised", "cancelled"}}

\* C7: in bounded-parallel mode the number of tasks that have acquired a slot
\* (reported task_start) and not yet finished is at most max_workers in every
\* state, and a slot is released when its task finishes, whether it passed,
\* failed or raised.
C7_BoundedWorkers ==
    cfg.parallel =>
        /\ Cardinality(Started \ Finished) <= cfg.max_workers
        /\ sem >= 0
        /\ sem = cfg.max_workers - Cardinality(Started \ Finished)

\* every slot is held again after a task that had acquired one raised
C7_Witness ==
    /\ cfg.parallel
    /\ \E i \in Tasks : phase[i] = "raised" /\ i \in Started
    /\ Cardinality(Started \ Finished) = cfg.max_workers
    /\ sem = 0

\* the TrialResults of task i determined by what its executor and grader calls did
C8_Outcome ==
    [i \in Tasks |->
        [k \in 1..Len(inputs[i]) |->
            RunTrial(k, GraderNames, inputs[i][k].exec, inputs[i][k].ran)]]

\* C8: in bounded-parallel mode every task of the list runs to completion
\* regardless of fail_fast and of other tasks' outcomes, with one TaskResult
\* per task; the TaskResults are, by task id, those sequential scheduling
\* without fail_fast produces from the same executor and grader behaviour.
C8_ParallelMatchesSequential ==
    pc = "returned" =>
        IF cfg.parallel
        THEN /\ Len(results) = cfg.n_tasks
             /\ \A i \in Tasks : results[i].id = i /\ Len(results[i].trials) = cfg.trials_per_task
             /\ LET seq == SequentialResults(C8_Outcome, cfg.n_tasks, FALSE, 1, <<>>)
                IN  {results[j] : j \in 1..Len(results)} = {seq[j] : j \in 1..Len(seq)}
        ELSE results = SequentialResults(C8_Outcome, cfg.n_tasks, cfg.fail_fast, 1, <<>>)

\* a fail-fast parallel run that returned a failed task and a later partial one
C8_Witness ==
    /\ cfg.parallel
    /\ cfg.fail_fast
    /\ pc = "returned"
    /\ Len(results) >= 2
    /\ results[1].status = "failed"
    /\ results[2].status = "partial"

\* C9: within one task exactly trials_per_task trials run, numbered
\* 1..trials_per_task in increasing order, and trial k+1 does not start before
\* trial k has completed: no two trials of a task are in flight together, in
\* sequential and in bounded-parallel mode.
C9_TrialsInOrder ==
    \A i \in Tasks :
        /\ Cardinality(inflight[i]) <= 1
        /\ inflight[i] \subseteq {Len(trials[i]) + 1}
        /\ Len(trials[i]) + Cardinality(inflight[i]) <= cfg.trials_per_task
        /\ \A k \in 1..Len(trials[i]) : trials[i][k].trial_id = k
        /\ HasResult(i) =>
               /\ inflight[i] = {}
               /\ Len(taskResult[i].trials) = cfg.trials_per_task
               /\ \A k \in 1..cfg.trials_per_task : taskResult[i].trials[k].trial_id = k

\* two tasks in flight in parallel mode, one of them in its second trial
C9_Witness ==
    /\ cfg.parallel
    /\ \E i \in Tasks : \E j \in Tasks :
           i # j /\ inflight[i] = {2} /\ inflight[j] # {} /\ Len(trials[i]) = 1

\* the progress calls of task i without the "message" calls, as (event,
\* trial_num, status)
RECURSIVE C10_Reported(_)
C10_Reported(es) ==
    IF es = <<>> THEN <<>>
    ELSE IF Head(es).event = "message" THEN C10_Reported(Tail(es))
    ELSE <<[event |-> Head(es).event, trial_num |-> Head(es).trial_num,
            status |-> Head(es).status]>> \o C10_Reported(Tail(es))

\* trial_start(k), trial_complete(k) for the finished trials k..Len(ts) of a task
RECURSIVE C10_TrialEvents(_, _)
C10_TrialEvents(ts, k) ==
    IF k > Len(ts) THEN <<>>
    ELSE <<[event |-> "trial_start", trial_num |-> k, status |-> "None"],
           [event |-> "trial_complete", trial_num |-> k, status |-> ts[k].status]>>
         \o C10_TrialEvents(ts, k + 1)

\* what C10 expects task i to have reported so far
C10_Expected(i) ==
    IF phase[i] = "pending" THEN <<>>
    ELSE <<[event |-> "task_start", trial_num |-> 0, status |-> "None"]>>
         \o C10_TrialEvents(trials[i], 1)
         \o (IF inflight[i] # {}
             THEN <<[event |-> "trial_start", trial_num |-> Len(trials[i]) + 1,
                     status |-> "None"]>>
             ELSE <<>>)
         \o (IF HasResult(i)
             THEN <<[event |-> "task_complete", trial_num |-> 0,
                     status |-> taskResult[i].status]>>
             ELSE <<>>)

\* C10: a task's progress events are task_start, then for each trial k in
\* increasing order trial_start(k) followed by trial_complete(k), then
\* task_complete; task_start and task_complete are reported once per task,
\* trial_complete carries the trial's status and task_complete the task's
\* derived status.
C10_ProgressOrder ==
    \A i \in Tasks : C10_Reported(events[i]) = C10_Expected(i)

\* a parallel run in which a partial task has reported all its events
C10_Witness ==
    /\ cfg.parallel
    /\ \E i \in Tasks :
           /\ HasResult(i)
           /\ taskResult[i].status = "partial"
           /\ Len(C10_Reported(events[i])) = 2 + 2 * cfg.trials_per_task
           /\ C10_Reported(events[i])[Len(C10_Reported(events[i]))].event = "task_complete"

\* C11: the progress sink never influences scheduling: a progress callback
\* that raises on an event changes neither the tasks and trials that run nor
\* the results, so no task coroutine and no run ends because the callback
\* raised, and no task is cancelled for it.
C11_NoCallbackInfluence ==
    /\ pc # "raised"
    /\ \A i \in Tasks : phase[i] \notin {"raised", "cancelled"}

\* both schedulers with a callback that may raise, under the scheduling of the
\* event loop: a coroutine that is ready runs, and an executor call that was
\* started ends (returns or raises)
SpecCbLive == InitCb /\ [][NextCb]_vars /\ WF_vars(NextCb)

\* run_async has handed back its EvalResult, whose task list `results` holds
\* the TaskResult of every task that was started
C12_Complete ==
    /\ pc = "returned"
    /\ \A i \in Tasks : phase[i] # "pending" =>
           /\ HasResult(i)
           /\ \E j \in 1..Len(results) : results[j] = taskResult[i]

\* C12: if every executor call and every grader call eventually returns or
\* raises, the run eventually returns one EvalResult, built after all
\* scheduled tasks have resolved (or after fail-fast stopped a sequential
\* run), holding a TaskResult for every task that was started, in sequential
\* and in bounded-parallel mode.
C12_EventuallyReturns == <>[]C12_Complete

\* the trials whose automated graders all passed and whose human review is
\* pending
C13_OnlyPending(i, k) ==
    /\ \A j \in 1..Len(inputs[i][k].ran) : inputs[i][k].ran[j] \in {"pass", "pending"}
    /\ \E j \in 1..Len(inputs[i][k].ran) : inputs[i][k].ran[j] = "pending"

\* C13: a pending human review does not count toward pass/fail: a trial whose
\* automated graders all pass is not marked "failed" because a human review
\* is pending, its task is not marked failed or partial for it, and the
\* pending result is marked as pending.
C13_PendingNotFailure ==
    /\ \A i \in Tasks : \A k \in 1..Len(trials[i]) :
           C13_OnlyPending(i, k) =>
               /\ trials[i][k].status # "failed"
               /\ \E g \in DOMAIN trials[i][k].grader_results :
                      trials[i][k].grader_results[g].pending
    /\ \A i \in Tasks :
           (HasResult(i) /\ \A k \in 1..Len(trials[i]) : C13_OnlyPending(i, k)) =>
               taskResult[i].status \notin {"failed", "partial"}

\* ----------------------------------------------------- graders on their own
LLMCalls ==
    \E r \in 0..MaxRawScore, t \in 0..4 :
        calc = Call("LLMGrader.grade", [raw_score |-> r, threshold |-> t])

ToolCallCalls ==
    \E a \in [required : 0..MaxPatterns, missing : 0..MaxPatterns,
              forbidden : 0..MaxPatterns, found : 0..MaxPatterns,
              max_calls : -1..MaxCalls, calls : 0..MaxCalls] :
        /\ a.missing <= a.required
        /\ a.found <= a.forbidden
        /\ calc = Call("ToolCallGrader.grade", a)

GradeLLM ==
    Return("LLMGrader.grade", LLMGrade(calc.arg.raw_score, calc.arg.threshold))

GradeToolCalls == Return("ToolCallGrader.grade", ToolCallGrade(calc.arg))

InitScore == InitCalc(LLMCalls \/ ToolCallCalls)

NextScore == GradeLLM \/ GradeToolCalls

SpecScore == InitScore /\ [][NextScore]_vars

\* C14: every score a grader produces lies in [0,1] for every grader
\* configuration and input, an out-of-range value being clamped rather than
\* causing an error: grade returns a GraderResult with 0 <= score <= 1.
C14_ScoresClamped ==
    calc.done => ~calc.out.raised /\ InUnit(calc.out.score)

\* ----------------------------------------------------------------- metrics
\* results.py 106-114: MetricResult(...) validates 0 <= score <= 1; detail is
\* details["error"] and failure_reason is details["failure_reason"] ("None"
\* when details has no such entry)
NewMetricResult(name, score, threshold, passed, weight, detail) ==
    IF InUnit(score)
    THEN [raised |-> FALSE, name |-> name, score |-> score, threshold |-> threshold,
          passed |-> passed, weight |-> weight, detail |-> detail,
          failure_reason |-> "None"]
    ELSE [raised |-> TRUE, error |-> "ValidationError"]

\* sum(1 for t in task_results if t.status in S)
CountStatus(statuses, S) == Cardinality({j \in 1..Len(statuses) : statuses[j] \in S})

\* runner.py 526-532: the score _compute_metrics reports for "task_completion"
calc_task_completion(statuses) ==
    IF statuses = <<>> THEN Frac(0, 1)
    ELSE Frac(CountStatus(statuses, {"passed", "partial"}), Len(statuses))

\* task_completion.py 23-67: TaskCompletionMetric.calculate
TaskCompletionCalculate(statuses, threshold, weight) ==
    IF statuses = <<>>
    THEN NewMetricResult("task_completion", Frac(0, 1), threshold, FALSE, weight,
                         "No task results")
    ELSE LET n_completed == CountStatus(statuses, {"passed", "partial"})
             fully_passed == CountStatus(statuses, {"passed"})
             partial_count == n_completed - fully_passed
             \* (fully_passed + 0.5 * partial_count) / len(task_results)
             weighted_score == Frac(2 * fully_passed + partial_count, 2 * Len(statuses))
         IN  NewMetricResult("task_completion", weighted_score, threshold,
                             Leq(threshold, weighted_score), weight, "None")

\* the task statuses a metric is handed
\* the lists over S of length at most n
SeqsUpTo(S, n) == UNION {[1..k -> S] : k \in 0..n}

StatusLists == SeqsUpTo({"passed", "partial", "failed"}, MaxResults)

\* thresholds and weights a metric is configured with
Thresholds == {Frac(0, 1), Frac(7, 10), Frac(1, 1)}

TaskCompletionCalls ==
    \E st \in StatusLists :
        \/ calc = Call("_calc_task_completion", [statuses |-> st])
        \/ \E th \in Thresholds :
               calc = Call("TaskCompletionMetric.calculate",
                           [statuses |-> st, threshold |-> th])

CalcTaskCompletion ==
    Return("_calc_task_completion",
           [raised |-> FALSE, score |-> calc_task_completion(calc.arg.statuses)])

TaskCompletion ==
    Return("TaskCompletionMetric.calculate",
           TaskCompletionCalculate(calc.arg.statuses, calc.arg.threshold, Frac(1, 1)))

\* C15: the task_completion score reported for an eval run equals
\* (fullyPassed + 0.5 x partial) / totalTasks, fullyPassed counting the tasks
\* with status "passed" and partial those with status "partial", and 0 for an
\* empty task list.
C15_TaskCompletionScore ==
    (calc.fn \in {"_calc_task_completion", "TaskCompletionMetric.calculate"} /\ calc.done) =>
        LET st == calc.arg.statuses
            fullyPassed == CountStatus(st, {"passed"})
            partial == CountStatus(st, {"partial"})
        IN  /\ ~calc.out.raised
            /\ IF st = <<>> THEN calc.out.score.n = 0
               ELSE Eq(calc.out.score, Frac(2 * fullyPassed + partial, 2 * Len(st)))

\* --------------------------------------------------------------- composite
\* sum(m.weight for m in metrics.values())
TotalWeight(metrics) == FracSum([j \in 1..Len(metrics) |-> metrics[j].weight])

\* sum(m.score * m.weight for m in metrics.values())
WeightedSum(metrics) ==
    FracSum([j \in 1..Len(metrics) |-> FracMul(metrics[j].score, metrics[j].weight)])

\* as _compute_composite_score, with the plain mean of the scores
compute_composite_scoreMutant(metrics) ==
    IF metrics = <<>> THEN Frac(0, 1)
    ELSE FracDiv(FracSum([j \in 1..Len(metrics) |-> metrics[j].score]),
                 Frac(Len(metrics), 1))

\* runner.py 557-567
compute_composite_score(metrics) ==
    IF metrics = <<>> THEN Frac(0, 1)
    ELSE IF TotalWeight(metrics).n = 0 THEN Frac(0, 1)
    ELSE FracDiv(WeightedSum(metrics), TotalWeight(metrics))

\* as NonZeroWeight, for a composite that takes the weights to sum to 1
NonZeroWeightMutant(total_weight) == Frac(1, 1)

\* composite.py 49-51: `if total_weight == 0: total_weight = 1.0`
NonZeroWeight(total_weight) ==
    IF total_weight.n = 0 THEN Frac(1, 1) ELSE total_weight

\* composite.py 21-72: CompositeMetric.calculate
CompositeCalculate(metrics, threshold) ==
    IF metrics = <<>>
    THEN NewMetricResult("composite", Frac(0, 1), threshold, FALSE, Frac(1, 1),
                         "No metrics to combine")
    ELSE LET composite_score ==
                 FracDiv(WeightedSum(metrics), NonZeroWeight(TotalWeight(metrics)))
             all_passed == \A j \in 1..Len(metrics) : metrics[j].passed
             composite_passed == Leq(threshold, composite_score)
         IN  NewMetricResult("composite", composite_score, threshold,
                             composite_passed /\ all_passed, Frac(1, 1), "None")

\* as GatePassed, for a gate that only counts when its metric is present
GatePassedMutant(metrics, name) ==
    \A j \in 1..Len(metrics) : metrics[j].name = name => metrics[j].passed

\* composite.py 95-96: metrics.get(name, MetricResult(..., passed=False)).passed
GatePassed(metrics, name) ==
    \E j \in 1..Len(metrics) : metrics[j].name = name /\ metrics[j].passed

\* composite.py 74-106: CompositeMetric.calculate_with_gates; gate_metrics = <<>>
\* stands for None and for the empty list
CalculateWithGates(metrics, threshold, gate_metrics) ==
    LET result == CompositeCalculate(metrics, threshold)
        gates_passed == \A g \in 1..Len(gate_metrics) : GatePassed(metrics, gate_metrics[g])
    IN  IF result.raised \/ gate_metrics = <<>> \/ gates_passed THEN result
        ELSE [result EXCEPT !.passed = FALSE, !.failure_reason = "Gate metric(s) failed"]

\* the names a dict of metrics can hold, in insertion order
MetricNames == <<"task_completion", "behavior_quality", "trigger_accuracy">>

MetricScores == {Frac(0, 1), Frac(3, 5), Frac(4, 5), Frac(1, 1)}

\* eval_spec.py 35: MetricConfig.weight has ge=0.0, le=1.0
MetricWeights == {Frac(0, 1), Frac(1, 2), Frac(1, 1)}

MetricDicts ==
    {[j \in 1..Len(m) |-> [name |-> MetricNames[j], score |-> m[j].score,
                           weight |-> m[j].weight, passed |-> m[j].passed]] :
        m \in SeqsUpTo([score : MetricScores, weight : MetricWeights, passed : BOOLEAN],
                       MaxMetrics)}

GateLists == {<<>>, <<"task_completion">>, <<"trigger_accuracy">>}

CompositeCalls ==
    \E m \in MetricDicts :
        \/ calc = Call("_compute_composite_score", [metrics |-> m])
        \/ \E th \in Thresholds :
               \/ calc = Call("CompositeMetric.calculate", [metrics |-> m, threshold |-> th])
               \/ \E g \in GateLists :
                      calc = Call("CompositeMetric.calculate_with_gates",
                                  [metrics |-> m, threshold |-> th, gate_metrics |-> g])

ComputeCompositeScore ==
    Return("_compute_composite_score",
           [raised |-> FALSE, score |-> compute_composite_score(calc.arg.metrics)])

Composite ==
    Return("CompositeMetric.calculate",
           CompositeCalculate(calc.arg.metrics, calc.arg.threshold))

CompositeWithGates ==
    Return("CompositeMetric.calculate_with_gates",
           CalculateWithGates(calc.arg.metrics, calc.arg.threshold, calc.arg.gate_metrics))

CompositeFns ==
    {"_compute_composite_score", "CompositeMetric.calculate",
     "CompositeMetric.calculate_with_gates"}

\* sum(metric.score x metric.weight) and sum(metric.weight) over the metrics
\* present, in units of 1/10 (scores are multiples of 1/5, weights of 1/2)
RECURSIVE C16_Sums(_)
C16_Sums(m) ==
    IF m = <<>> THEN [sw |-> 0, w |-> 0]
    ELSE LET r == C16_Sums(Tail(m))
             s5 == (5 * Head(m).score.n) \div Head(m).score.d
             w2 == (2 * Head(m).weight.n) \div Head(m).weight.d
         IN  [sw |-> r.sw + s5 * w2, w |-> r.w + 5 * w2]

C17_Gates ==
    IF calc.fn = "CompositeMetric.calculate_with_gates" THEN calc.arg.gate_metrics ELSE <<>>

\* what C17 makes passed equivalent to: the score meets the composite's
\* threshold, every metric passed, every named gate is present and passed
C17_Condition ==
    /\ Leq(calc.arg.threshold, calc.out.score)
    /\ \A j \in 1..Len(calc.arg.metrics) : calc.arg.metrics[j].passed
    /\ \A g \in 1..Len(C17_Gates) :
           \E j \in 1..Len(calc.arg.metrics) :
               calc.arg.metrics[j].name = C17_Gates[g] /\ calc.arg.metrics[j].passed

C17_Called ==
    /\ calc.fn \in {"CompositeMetric.calculate", "CompositeMetric.calculate_with_gates"}
    /\ calc.done

\* C17 as stated: the composite result is passed iff score >= threshold and
\* every metric passed and every named gate metric is present and passed,
\* for every set of metrics.
C17_Original ==
    C17_Called => (~calc.out.raised /\ (calc.out.passed <=> C17_Condition))

\* C17, amended: for a non-empty set of metrics the composite result is passed
\* iff score >= threshold and every metric passed and every named gate metric
\* is present and passed; with no metrics the result is not passed, whatever
\* the threshold; a gate never changes the composite score.
C17_CompositePassed ==
    C17_Called =>
        /\ ~calc.out.raised
        /\ IF calc.arg.metrics = <<>> THEN ~calc.out.passed /\ calc.out.score.n = 0
           ELSE calc.out.passed <=> C17_Condition
        /\ calc.out.score = CompositeCalculate(calc.arg.metrics, calc.arg.threshold).score

\* every metric passed and the score meets the threshold, and a gate metric
\* that is missing makes the result fail
C17_Witness ==
    /\ calc.fn = "CompositeMetric.calculate_with_gates"
    /\ calc.done
    /\ calc.arg.metrics # <<>>
    /\ \A j \in 1..Len(calc.arg.metrics) : calc.arg.metrics[j].passed
    /\ Leq(calc.arg.threshold, calc.out.score)
    /\ calc.arg.threshold.n > 0
    /\ calc.arg.gate_metrics = <<"trigger_accuracy">>
    /\ ~calc.out.passed

\* -------------------------------------------------------- behavior quality
\* behavior_quality.py 117-121 / 125-128: the score of one count against its
\* configured maximum (max_count = -1 stands for None; `if self.max_...:` is
\* false for None and for 0)
CountScore(count, max_count) ==
    IF max_count = -1 \/ max_count = 0 THEN Frac(1, 1)
    ELSE LET ratio == IF count >= max_count THEN Frac(1, 1) ELSE Frac(count, max_count)
             \* 1.0 - (ratio - 0.5) * 2
             inverted == Frac(2 * (ratio.d - ratio.n), ratio.d)
         IN  IF 2 * ratio.n > ratio.d
             THEN (IF inverted.n < 0 THEN Frac(0, 1) ELSE inverted)
             ELSE Frac(1, 1)

\* behavior_quality.py 107-133: BehaviorQualityMetric._calc_efficiency over the
\* transcript summaries of the trials
calc_efficiency(summaries, max_tool_calls, max_iterations) ==
    IF summaries = <<>> THEN Frac(0, 1)
    ELSE LET scores == [j \in 1..Len(summaries) |->
                 FracDiv(FracAdd(CountScore(summaries[j].tool_calls, max_tool_calls),
                                 CountScore(summaries[j].total_turns, max_iterations)),
                         Frac(2, 1))]
         IN  FracDiv(FracSum(scores), Frac(Len(summaries), 1))

\* runner.py 447-452: total_turns counts the events of the transcript and
\* tool_calls those of them that are tool events
TranscriptSummaries ==
    {t \in [tool_calls : 0..(MaxCalls + 1), total_turns : 0..(MaxCalls + 1)] :
        t.tool_calls <= t.total_turns}

EfficiencyCalls ==
    \E ts \in SeqsUpTo(TranscriptSummaries, MaxTrials) :
    \E mc \in -1..MaxCalls, mi \in -1..MaxCalls :
        calc = Call("_calc_efficiency",
                    [summaries |-> ts, max_tool_calls |-> mc, max_iterations |-> mi])

CalcEfficiency ==
    Return("_calc_efficiency",
           [raised |-> FALSE,
            score |-> calc_efficiency(calc.arg.summaries, calc.arg.max_tool_calls,
                                      calc.arg.max_iterations)])

\* the count is at or below its configured maximum, or none is configured
C18_Within(count, max_count) == max_count \in {-1, 0} \/ count <= max_count

\* C18: the efficiency component penalises a trial only once its tool-call or
\* turn count exceeds the configured maximum: trials whose counts are at or
\* below the maxima contribute efficiency 1.0, with no maximum configured it
\* is 1.0, and it is never below 0.
C18_EfficiencyPenalty ==
    (calc.fn = "_calc_efficiency" /\ calc.done /\ calc.arg.summaries # <<>>) =>
        /\ InUnit(calc.out.score)
        /\ (\A j \in 1..Len(calc.arg.summaries) :
               /\ C18_Within(calc.arg.summaries[j].tool_calls, calc.arg.max_tool_calls)
               /\ C18_Within(calc.arg.summaries[j].total_turns, calc.arg.max_iterations))
           => Eq(calc.out.score, Frac(1, 1))

\* as EmptyResult, for a metric without the guard, which divides by zero
EmptyResultMutant(name, threshold, weight, detail) ==
    [raised |-> TRUE, error |-> "ZeroDivisionError"]

\* behavior_quality.py 45-53 / 60-68, trigger_accuracy.py 37-45: the result a
\* metric returns when it has nothing to score
EmptyResult(name, threshold, weight, detail) ==
    NewMetricResult(name, Frac(0, 1), threshold, FALSE, weight, detail)

\* sum(scores) / len(scores) if scores else default
MeanOr(scores, default) ==
    IF scores = <<>> THEN default
    ELSE FracDiv(FracSum(scores), Frac(Len(scores), 1))

\* all_trials.extend(task.trials) over the tasks
RECURSIVE AllTrials(_)
AllTrials(task_results) ==
    IF task_results = <<>> THEN <<>>
    ELSE Head(task_results) \o AllTrials(Tail(task_results))

\* the sublist of qs whose elements satisfy Test
RECURSIVE SelectWithGraders(_)
SelectWithGraders(ts) ==
    IF ts = <<>> THEN <<>>
    ELSE (IF Head(ts).grader_scores # <<>> THEN <<Head(ts)>> ELSE <<>>)
         \o SelectWithGraders(Tail(ts))

\* behavior_quality.py 135-154; covered: the required tools the trial used
calc_tool_usage(ts, n_required) ==
    IF n_required = 0 THEN Frac(1, 1)
    ELSE MeanOr([j \in 1..Len(ts) |-> Frac(ts[j].covered, n_required)], Frac(0, 1))

\* behavior_quality.py 156-168
calc_error_rate(ts) ==
    IF ts = <<>> THEN Frac(0, 1)
    ELSE LET error_count ==
                 Cardinality({j \in 1..Len(ts) : ts[j].status = "error" \/ ts[j].errors})
         IN  FracAdd(Frac(1, 1), Frac(-error_count, Len(ts)))

\* behavior_quality.py 170-178 (and runner.py 546-555 with default 0.0): the
\* mean over the trials that have grader results of their mean grader score
calc_grader_average(ts, default) ==
    LET graded == SelectWithGraders(ts)
    IN  MeanOr([j \in 1..Len(graded) |-> MeanOr(graded[j].grader_scores, Frac(0, 1))],
               default)

\* behavior_quality.py 36-105: BehaviorQualityMetric.calculate; a holds the
\* task results (each the list of its trials) and the metric's configuration
BehaviorQualityCalculate(a) ==
    IF a.task_results = <<>>
    THEN EmptyResult("behavior_quality", a.threshold, Frac(1, 1), "No task results")
    ELSE IF AllTrials(a.task_results) = <<>>
    THEN EmptyResult("behavior_quality", a.threshold, Frac(1, 1), "No trials")
    ELSE LET ts == AllTrials(a.task_results)
             quarter == Frac(1, 4)
             overall_score ==
                 FracAdd(FracAdd(FracMul(calc_efficiency(ts, a.max_tool_calls,
                                                         a.max_iterations), quarter),
                                 FracMul(calc_tool_usage(ts, a.n_required), quarter)),
                         FracAdd(FracMul(calc_error_rate(ts), quarter),
                                 FracMul(calc_grader_average(ts, Frac(1, 2)), quarter)))
         IN  NewMetricResult("behavior_quality", overall_score, a.threshold,
                             Leq(a.threshold, overall_score), Frac(1, 1), "None")

\* trigger_accuracy.py 23-100: TriggerAccuracyMetric.calculate; rs is the list
\* of (should_trigger, actual_triggered)
TriggerAccuracyCalculate(rs, threshold) ==
    IF rs = <<>>
    THEN EmptyResult("trigger_accuracy", threshold, Frac(1, 1), "No trigger results")
    ELSE LET correct == Cardinality({j \in 1..Len(rs) :
                                         rs[j].should_trigger = rs[j].triggered})
             accuracy == Frac(correct, Len(rs))
         IN  NewMetricResult("trigger_accuracy", accuracy, threshold,
                             Leq(threshold, accuracy), Frac(1, 1), "None")

\* the trials a behavior-quality metric is handed: with or without tool
\* calls, required tools, an error, graders
QualityTrials ==
    [tool_calls : {0, 1}, total_turns : {2}, covered : {0, 1},
     status : {"passed", "error"}, errors : {FALSE},
     grader_scores : {<<>>, <<Frac(1, 1)>>, <<Frac(0, 1), Frac(1, 1)>>}]

BehaviorQualityCalls ==
    \E trs \in SeqsUpTo(SeqsUpTo(QualityTrials, 1), MaxTasks) :
    \E mc \in {-1, 1}, nr \in {0, 1} :
        calc = Call("BehaviorQualityMetric.calculate",
                    [task_results |-> trs, max_tool_calls |-> mc, max_iterations |-> -1,
                     n_required |-> nr, threshold |-> Frac(7, 10)])

TriggerAccuracyCalls ==
    \E rs \in SeqsUpTo([should_trigger : BOOLEAN, triggered : BOOLEAN], MaxResults) :
    \E th \in Thresholds :
        calc = Call("TriggerAccuracyMetric.calculate",
                    [trigger_results |-> rs, threshold |-> th])

BehaviorQuality ==
    Return("BehaviorQualityMetric.calculate", BehaviorQualityCalculate(calc.arg))

TriggerAccuracy ==
    Return("TriggerAccuracyMetric.calculate",
           TriggerAccuracyCalculate(calc.arg.trigger_results, calc.arg.threshold))

\* t.status for t in task_results
StatusesOf(task_results) == [j \in 1..Len(task_results) |-> task_results[j].status]

\* runner.py 534-540, and the default branch of _compute_metrics (line 514)
calc_pass_rate(task_results) ==
    IF task_results = <<>> THEN Frac(0, 1)
    ELSE Frac(CountStatus(StatusesOf(task_results), {"passed"}), Len(task_results))

\* runner.py 542-555
calc_behavior_quality(task_results) ==
    IF task_results = <<>> THEN Frac(0, 1)
    ELSE calc_grader_average(
             AllTrials([j \in 1..Len(task_results) |-> task_results[j].trials]),
             Frac(0, 1))

\* runner.py 506-514: the score of one configured metric
MetricScore(name, task_results) ==
    CASE name = "task_completion" -> calc_task_completion(StatusesOf(task_results))
      [] name = "trigger_accuracy" -> calc_pass_rate(task_results)
      [] name = "behavior_quality" -> calc_behavior_quality(task_results)
      [] OTHER -> calc_pass_rate(task_results)

\* metric_config.enabled
IsEnabled(metric_config) == metric_config.enabled

\* runner.py 497-524: _compute_metrics, the results in the order configured
compute_metrics(task_results, metric_configs) ==
    LET enabled == SelectSeq(metric_configs, IsEnabled)
    IN  [j \in 1..Len(enabled) |->
            LET score == MetricScore(enabled[j].name, task_results)
            IN  NewMetricResult(enabled[j].name, score, enabled[j].threshold,
                                Leq(enabled[j].threshold, score), enabled[j].weight,
                                "None")]

\* schemas/results.py 117-127: EvalSummary(...), validated
NewEvalSummary(total_tasks, n_passed, n_failed, n_errors, pass_rate, composite_score) ==
    IF InUnit(pass_rate) /\ InUnit(composite_score)
    THEN [raised |-> FALSE, total_tasks |-> total_tasks, passed |-> n_passed,
          failed |-> n_failed, errors |-> n_errors, pass_rate |-> pass_rate,
          composite_score |-> composite_score]
    ELSE [raised |-> TRUE, error |-> "ValidationError"]

\* runner.py 172-192: the metrics and the summary run_async builds from the
\* task results
BuildSummary(task_results, metric_configs) ==
    LET metrics == compute_metrics(task_results, metric_configs)
        statuses == StatusesOf(task_results)
    IN  IF \E j \in 1..Len(metrics) : metrics[j].raised
        THEN [raised |-> TRUE, error |-> "ValidationError"]
        ELSE LET summary ==
                     NewEvalSummary(Len(task_results),
                                    CountStatus(statuses, {"passed"}),
                                    CountStatus(statuses, {"failed"}),
                                    CountStatus(statuses, {"error"}),
                                    IF task_results # <<>>
                                    THEN Frac(CountStatus(statuses, {"passed"}),
                                              Len(task_results))
                                    ELSE Frac(0, 1),
                                    compute_composite_score(metrics))
             IN  IF summary.raised THEN summary
                 ELSE [raised |-> FALSE, metrics |-> metrics, summary |-> summary]

\* runner.py 172-192: the metrics and the summary of the EvalResult that
\* run_async returns once the schedulers have handed back `results`, for an
\* eval spec without a metrics section
RunSummary == BuildSummary(results, <<>>)

\* a metric of the eval spec
MetricConfig(name, weight, enabled) ==
    [name |-> name, weight |-> weight, threshold |-> Frac(7, 10), enabled |-> enabled]

\* the metrics sections a run is configured with
MetricConfigLists ==
    {<<>>,
     <<MetricConfig("task_completion", Frac(1, 1), TRUE)>>,
     <<MetricConfig("task_completion", Frac(1, 2), TRUE),
       MetricConfig("trigger_accuracy", Frac(1, 2), FALSE),
       MetricConfig("behavior_quality", Frac(1, 2), TRUE)>>,
     <<MetricConfig("trigger_accuracy", Frac(0, 1), TRUE)>>,
     <<MetricConfig("custom", Frac(1, 1), TRUE),
       MetricConfig("behavior_quality", Frac(0, 1), TRUE)>>}

\* the task results a run hands to its summary: no task, tasks without
\* trials, trials without graders among them
SummaryTaskResults ==
    SeqsUpTo([status : {"passed", "failed", "error"},
              trials : SeqsUpTo([grader_scores : {<<>>, <<Frac(1, 1)>>,
                                                  <<Frac(0, 1), Frac(1, 1)>>}], 1)],
             MaxTasks)

SummaryCalls ==
    \E trs \in SummaryTaskResults, mcs \in MetricConfigLists :
        calc = Call("run_async.summary", [task_results |-> trs, metrics |-> mcs])

Summary ==
    Return("run_async.summary", BuildSummary(calc.arg.task_results, calc.arg.metrics))

\* one metric map handed to both composite computations
CompositeBothCalls ==
    \E m \in MetricDicts : \E th \in Thresholds :
        calc = Call("composite_score.both", [metrics |-> m, threshold |-> th])

\* runner.py 557-567 and composite.py 21-72 applied to the same metrics:
\* EvalRunner._compute_composite_score(metrics) and
\* CompositeMetric(threshold).calculate(metrics)
CompositeBoth ==
    Return("composite_score.both",
           [raised |-> FALSE,
            runner |-> compute_composite_score(calc.arg.metrics),
            metric |-> CompositeCalculate(calc.arg.metrics, calc.arg.threshold)])

InitMetrics ==
    InitCalc(TaskCompletionCalls \/ CompositeCalls \/ EfficiencyCalls
             \/ BehaviorQualityCalls \/ TriggerAccuracyCalls \/ SummaryCalls
             \/ CompositeBothCalls)

NextMetrics ==
    \/ CalcTaskCompletion
    \/ TaskCompletion
    \/ ComputeCompositeScore
    \/ Composite
    \/ CompositeWithGates
    \/ CalcEfficiency
    \/ BehaviorQuality
    \/ TriggerAccuracy
    \/ Summary
    \/ CompositeBoth

SpecMetrics == InitMetrics /\ [][NextMetrics]_vars

\* ----------------------------------------------------------- TaskAggregate
\* compute_aggregate compares a mean with a minimum and a maximum, so here the
\* rounding of Python's float arithmetic is kept: a float is a binary
\* floating-point number, modelled with a 4-bit significand (8..15 times a
\* power of two) instead of 53 bits, and every operation rounds its exact
\* result to the nearest float, ties to the even significand.
\* FlRound rounds n/d > 0, scaled by up/down.
RECURSIVE FlRound(_, _, _, _)
FlRound(n, d, up, down) ==
    IF n < 8 * d THEN FlRound(2 * n, d, up, 2 * down)
    ELSE IF n >= 16 * d THEN FlRound(n, 2 * d, 2 * up, down)
    ELSE LET m == n \div d
             r == n - m * d
             significand == IF 2 * r > d THEN m + 1
                            ELSE IF 2 * r < d THEN m
                            ELSE IF m % 2 = 0 THEN m ELSE m + 1
         IN  Frac(significand * up, down)

Fl(q) == IF q.n = 0 THEN Frac(0, 1) ELSE FlRound(q.n, q.d, 1, 1)

\* sum(scores): the floats are added from left to right
RECURSIVE FlSum(_, _)
FlSum(qs, acc) ==
    IF qs = <<>> THEN acc ELSE FlSum(Tail(qs), Fl(FracAdd(acc, Head(qs))))

\* min(scores) / max(scores)
MinScore(scores) ==
    CHOOSE q \in {scores[j] : j \in 1..Len(scores)} :
        \A j \in 1..Len(scores) : Leq(q, scores[j])

MaxScore(scores) ==
    CHOOSE q \in {scores[j] : j \in 1..Len(scores)} :
        \A j \in 1..Len(scores) : Leq(scores[j], q)

\* as PassedCount, counting the trials with a positive score
PassedCountMutant(ts) == Cardinality({j \in 1..Len(ts) : ts[j].score.n > 0})

\* results.py 95: sum(1 for t in self.trials if t.passed)
PassedCount(ts) == Cardinality({j \in 1..Len(ts) : ts[j].passed})

\* results.py 69-76: TaskAggregate(...) validates that the four rates and
\* scores lie in [0,1]
NewTaskAggregate(pass_rate, mean_score, min_score, max_score) ==
    IF InUnit(pass_rate) /\ InUnit(mean_score) /\ InUnit(min_score) /\ InUnit(max_score)
    THEN [raised |-> FALSE, set |-> TRUE, pass_rate |-> pass_rate,
          mean_score |-> mean_score, min_score |-> min_score, max_score |-> max_score]
    ELSE [raised |-> TRUE, error |-> "ValidationError"]

\* results.py 88-103: TaskResult.compute_aggregate over trials given by their
\* score and passed properties; set = FALSE: self.aggregate stays None
compute_aggregate(ts) ==
    IF ts = <<>> THEN [raised |-> FALSE, set |-> FALSE]
    ELSE LET scores == [j \in 1..Len(ts) |-> ts[j].score]
             len == Frac(Len(ts), 1)
         IN  NewTaskAggregate(Fl(FracDiv(Frac(PassedCount(ts), 1), len)),
                              Fl(FracDiv(FlSum(scores, Frac(0, 1)), len)),
                              MinScore(scores), MaxScore(scores))

\* the floats a trial's score can be: 0, 1 and the floats of [0.5, 1)
ScoreFloats == {Frac(0, 1), Frac(1, 1)} \cup {Frac(m, 16) : m \in 8..15}

AggregateCalls ==
    \E ts \in SeqsUpTo([score : ScoreFloats, passed : BOOLEAN], MaxScores) :
        calc = Call("compute_aggregate", [trials |-> ts])

ComputeAggregate == Return("compute_aggregate", compute_aggregate(calc.arg.trials))

InitAggregate == InitCalc(AggregateCalls)

NextAggregate == ComputeAggregate

SpecAggregate == InitAggregate /\ [][NextAggregate]_vars

\* the number of trials whose passed is true
C19_Passed(ts) == Cardinality({j \in 1..Len(ts) : ts[j].passed})

\* the exact mean of the trials' scores
C19_Mean(ts) == FracDiv(FracSum([j \in 1..Len(ts) |-> ts[j].score]), Frac(Len(ts), 1))

\* a and b differ by at most tol
C19_Near(a, b, tol) ==
    /\ Leq(a, FracAdd(b, tol))
    /\ Leq(b, FracAdd(a, tol))

C19_Called == calc.fn = "compute_aggregate" /\ calc.done

\* C19 as stated: after compute_aggregate on a non-empty trial list, pass_rate
\* is the number of passed trials over the number of trials, mean_score the
\* mean of the trials' scores, and min_score <= mean_score <= max_score; with
\* an empty trial list the aggregate stays unset and nothing is raised.
C19_Original ==
    C19_Called =>
        /\ ~calc.out.raised
        /\ IF calc.arg.trials = <<>> THEN ~calc.out.set
           ELSE /\ calc.out.set
                /\ calc.out.pass_rate
                       = Fl(Frac(C19_Passed(calc.arg.trials), Len(calc.arg.trials)))
                /\ Leq(calc.out.min_score, calc.out.mean_score)
                /\ Leq(calc.out.mean_score, calc.out.max_score)

\* C19, amended: after compute_aggregate on a non-empty trial list, pass_rate
\* is the number of passed trials over the number of trials, min_score and
\* max_score are the least and the greatest trial score, the exact mean of
\* the scores lies between them, and mean_score is the float sum(scores) /
\* len(scores), equal to the exact mean up to the rounding of the additions
\* and the division; with an empty trial list the aggregate stays unset and
\* nothing is raised.
C19_Aggregate ==
    C19_Called =>
        LET ts == calc.arg.trials IN
        /\ ~calc.out.raised
        /\ IF ts = <<>> THEN ~calc.out.set
           ELSE /\ calc.out.set
                /\ calc.out.pass_rate = Fl(Frac(C19_Passed(ts), Len(ts)))
                /\ \A j \in 1..Len(ts) :
                       Leq(calc.out.min_score, ts[j].score)
                       /\ Leq(ts[j].score, calc.out.max_score)
                /\ \E j \in 1..Len(ts) : calc.out.min_score = ts[j].score
                /\ \E j \in 1..Len(ts) : calc.out.max_score = ts[j].score
                /\ Leq(calc.out.min_score, C19_Mean(ts))
                /\ Leq(C19_Mean(ts), calc.out.max_score)
                /\ C19_Near(calc.out.mean_score, C19_Mean(ts),
                            FracMul(C19_Mean(ts), Frac(Len(ts) + 1, 16)))

\* three trials of equal score, two of them passed, whose mean_score is not
\* their score
C19_Witness ==
    /\ C19_Called
    /\ Len(calc.arg.trials) = 3
    /\ C19_Passed(calc.arg.trials) = 2
    /\ calc.out.min_score = calc.out.max_score
    /\ ~Eq(calc.out.mean_score, calc.out.min_score)

----------------------------------------------------------------------------
\* Degenerate input: nothing to score

\* the metric computations and the run's summary
C20_Fns ==
    {"_calc_task_completion", "TaskCompletionMetric.calculate",
     "BehaviorQualityMetric.calculate", "TriggerAccuracyMetric.calculate",
     "run_async.summary"} \cup CompositeFns

\* the metric classes, whose results carry details
C20_Classes ==
    {"TaskCompletionMetric.calculate", "BehaviorQualityMetric.calculate",
     "TriggerAccuracyMetric.calculate", "CompositeMetric.calculate",
     "CompositeMetric.calculate_with_gates"}

\* the trials of the call's task results, for the calls that receive trials
C20_Trials ==
    IF calc.fn = "BehaviorQualityMetric.calculate" THEN AllTrials(calc.arg.task_results)
    ELSE IF calc.fn = "run_async.summary"
    THEN AllTrials([j \in 1..Len(calc.arg.task_results) |->
                       calc.arg.task_results[j].trials])
    ELSE <<>>

\* the call was given no task (no metric, no trigger result), or tasks that
\* have no trial at all
C20_Nothing ==
    \/ calc.fn \in {"_calc_task_completion", "TaskCompletionMetric.calculate"}
       /\ calc.arg.statuses = <<>>
    \/ calc.fn \in CompositeFns /\ calc.arg.metrics = <<>>
    \/ calc.fn = "TriggerAccuracyMetric.calculate" /\ calc.arg.trigger_results = <<>>
    \/ calc.fn = "BehaviorQualityMetric.calculate" /\ C20_Trials = <<>>
    \/ calc.fn = "run_async.summary" /\ calc.arg.task_results = <<>>

\* the call was given trials, and none of them has a grader result
C20_NoGraders ==
    /\ calc.fn \in {"BehaviorQualityMetric.calculate", "run_async.summary"}
    /\ C20_Trials # <<>>
    /\ \A j \in 1..Len(C20_Trials) : C20_Trials[j].grader_scores = <<>>

\* the scores a returned result holds
C20_Scores ==
    IF calc.fn = "run_async.summary"
    THEN {calc.out.summary.pass_rate, calc.out.summary.composite_score}
         \cup {calc.out.metrics[j].score : j \in 1..Len(calc.out.metrics)}
    ELSE {calc.out.score}

----------------------------------------------------------------------------
\* Code and script graders

\* results.py 11-20: GraderResult(score=..., passed=..., message=...)
NewGraderMessage(score, passed, message) ==
    IF InUnit(score)
    THEN [raised |-> FALSE, score |-> score, passed |-> passed, message |-> message]
    ELSE [raised |-> TRUE, error |-> "ValidationError"]

\* as OnException, for a handler that swallows the exception
OnExceptionMutant(failed_assertions) == failed_assertions

\* code_graders.py 69-70: except Exception as e: failed_assertions.append(...)
OnException(failed_assertions) == Append(failed_assertions, "Error in")

\* code_graders.py 62-70: the loop over the assertions; an assertion is the
\* outcome of its eval: "truthy", "falsy" or "raises"
RECURSIVE EvalAssertions(_, _, _)
EvalAssertions(assertions, passed_count, failed_assertions) ==
    IF assertions = <<>>
    THEN [passed_count |-> passed_count, failed_assertions |-> failed_assertions]
    ELSE LET result == Head(assertions)
         IN  CASE result = "truthy" ->
                    EvalAssertions(Tail(assertions), passed_count + 1, failed_assertions)
               [] result = "falsy" ->
                    EvalAssertions(Tail(assertions), passed_count,
                                   Append(failed_assertions, "Failed:"))
               [] OTHER ->
                    EvalAssertions(Tail(assertions), passed_count,
                                   OnException(failed_assertions))

\* code_graders.py 21-87: CodeGrader.grade; details carries the failure list
CodeGrade(assertions) ==
    IF assertions = <<>>
    THEN NewGraderMessage(Frac(1, 1), TRUE, "No assertions configured")
         @@ [failed_assertions |-> <<>>]
    ELSE LET r == EvalAssertions(assertions, 0, <<>>)
             score == Frac(r.passed_count, Len(assertions))
             passed == Len(r.failed_assertions) = 0
             result == NewGraderMessage(score, passed,
                                        IF passed THEN "All assertions passed"
                                        ELSE "failed_assertions")
         IN  IF result.raised THEN result
             ELSE result @@ [failed_assertions |-> r.failed_assertions]

\* code_graders.py 247-255: GraderResult(...) from the script's JSON object;
\* a missing key takes its default, a value of the wrong type or a score
\* outside [0, 1] raises ValidationError
ScriptOutputResult(a) ==
    LET score == IF a.score_kind = "absent" THEN Frac(0, 1) ELSE a.score_value
        message == IF a.message_kind = "absent" THEN "" ELSE "script message"
    IN  IF a.score_kind = "text" \/ a.passed_kind = "text" \/ a.message_kind = "null"
        THEN [raised |-> TRUE, error |-> "ValidationError"]
        ELSE NewGraderMessage(score, a.passed_kind = "true", message)

\* code_graders.py 206-274: ScriptGrader.grade; a.run is what subprocess.run
\* did, a.json what json.loads makes of the script's stdout
ScriptGrade(a) ==
    IF ~a.script
    THEN NewGraderMessage(Frac(0, 1), FALSE, "No script path configured")
    ELSE CASE a.run = "timeout" ->
                NewGraderMessage(Frac(0, 1), FALSE, "Script timed out")
           [] a.run = "oserror" ->
                NewGraderMessage(Frac(0, 1), FALSE, "Script error")
           [] a.run = "nonzero" ->
                NewGraderMessage(Frac(0, 1), FALSE, "Script failed")
           [] OTHER ->
                IF a.json # "dict" \/ ScriptOutputResult(a).raised
                THEN NewGraderMessage(Frac(0, 1), FALSE, "Script error")
                ELSE ScriptOutputResult(a)

\* runner.py 363-372, 401: the types of the events an executor emits
\* ("tool_call" by legacy executors and _mock_execution)
EventTypes == {"user.message", "assistant.message", "tool.execution_start", "tool_call"}

\* type.startswith("tool.")
IsToolEvent(type) == type = "tool.execution_start"

\* runner.py 410-422: the normalized conversation; its entries have a role
\* and no "type" (entry.get("type") is None), events of other types are left
\* out
RECURSIVE Conversation(_)
Conversation(transcript) ==
    IF transcript = <<>> THEN <<>>
    ELSE LET type == Head(transcript)
         IN  (CASE type = "user.message" -> <<[role |-> "user", type |-> "None"]>>
                [] type = "assistant.message" ->
                      <<[role |-> "assistant", type |-> "None"]>>
                [] IsToolEvent(type) -> <<[role |-> "tool", type |-> "None"]>>
                [] OTHER -> <<>>)
             \o Conversation(Tail(transcript))

\* code_graders.py 151-155: the tool calls ToolCallGrader takes from the
\* transcript of the context
ExtractToolCalls(transcript) ==
    Cardinality({k \in 1..Len(transcript) : transcript[k].type = "tool_call"})

\* runner.py 448: the tool calls the runner counts in the raw events
RunnerToolCalls(transcript) ==
    Cardinality({k \in 1..Len(transcript) :
                    transcript[k] = "tool_call" \/ IsToolEvent(transcript[k])})

\* runner.py 424-436 with code_graders.py 143-195: _run_trial hands the
\* conversation to the grader; every pattern names the tool of the calls, so
\* it is found iff the grader sees a call
TrialToolCallGrade(a) ==
    LET n == ExtractToolCalls(Conversation(a.events))
        result == ToolCallGrade([required |-> a.required,
                                 missing |-> IF n = 0 THEN a.required ELSE 0,
                                 forbidden |-> a.forbidden,
                                 found |-> IF n = 0 THEN 0 ELSE a.forbidden,
                                 max_calls |-> a.max_calls, calls |-> n])
    IN  IF result.raised THEN result
        ELSE [raised |-> FALSE, score |-> result.score, passed |-> result.passed,
              total_tool_calls |-> n]

TrialToolCallCalls ==
    \E ev \in SeqsUpTo(EventTypes, MaxCalls + 1) :
    \E mc \in -1..MaxCalls, rq \in 0..1, fb \in 0..1 :
        calc = Call("_run_trial.ToolCallGrader",
                    [events |-> ev, max_calls |-> mc, required |-> rq, forbidden |-> fb])

GradeTrialToolCalls == Return("_run_trial.ToolCallGrader", TrialToolCallGrade(calc.arg))

CodeCalls ==
    \E as \in SeqsUpTo({"truthy", "falsy", "raises"}, MaxAssertions) :
        calc = Call("CodeGrader.grade", [assertions |-> as])

ScriptCalls ==
    \E a \in [script : BOOLEAN, run : {"timeout", "oserror", "nonzero", "exit0"},
               json : {"invalid", "list", "dict"},
               score_kind : {"absent", "number", "text"},
               score_value : {Frac(0, 1), Frac(1, 2), Frac(1, 1), Frac(2, 1)},
               passed_kind : {"absent", "true", "false", "text"},
               message_kind : {"absent", "text", "null"}] :
        calc = Call("ScriptGrader.grade", a)

GradeCode == Return("CodeGrader.grade", CodeGrade(calc.arg.assertions))

GradeScript == Return("ScriptGrader.grade", ScriptGrade(calc.arg))

InitGraders == InitCalc(CodeCalls \/ ScriptCalls \/ TrialToolCallCalls)

NextGraders == GradeCode \/ GradeScript \/ GradeTrialToolCalls

SpecGraders == InitGraders /\ [][NextGraders]_vars

\* the assertions of the call that evaluate as r
C21_Count(r) ==
    Cardinality({j \in 1..Len(calc.arg.assertions) : calc.arg.assertions[j] = r})

C21_Called == calc.done /\ calc.fn = "CodeGrader.grade"

\* C21: the code grader's score is (assertions evaluating truthy) / (all
\* assertions) and it passes iff every assertion is truthy; an assertion
\* whose evaluation raises is recorded as a failure with a message and the
\* ones after it are still evaluated, so there is one failure message per
\* assertion that is not truthy; no assertion at all gives score 1, passed.
C21_CodeScore ==
    C21_Called =>
        /\ ~calc.out.raised
        /\ IF calc.arg.assertions = <<>>
           THEN Eq(calc.out.score, Frac(1, 1)) /\ calc.out.passed
           ELSE /\ Eq(calc.out.score,
                      Frac(C21_Count("truthy"), Len(calc.arg.assertions)))
                /\ calc.out.passed <=> C21_Count("truthy") = Len(calc.arg.assertions)
                /\ Len(calc.out.failed_assertions)
                       = C21_Count("falsy") + C21_Count("raises")
                /\ Cardinality({j \in 1..Len(calc.out.failed_assertions) :
                                   calc.out.failed_assertions[j] = "Error in"})
                       = C21_Count("raises")

\* a raising assertion followed by a truthy one: the truthy one still counts
C21_Witness ==
    /\ C21_Called
    /\ calc.arg.assertions = <<"raises", "truthy">>
    /\ Eq(calc.out.score, Frac(1, 2))
    /\ ~calc.out.passed

C22_Called == calc.done /\ calc.fn = "ScriptGrader.grade"

\* the script ran to exit code 0 and printed something other than a JSON
\* object with a numeric score in [0, 1], a boolean passed and, if any, a
\* text message
C22_Malformed ==
    /\ calc.arg.script
    /\ calc.arg.run = "exit0"
    /\ \/ calc.arg.json # "dict"
       \/ calc.arg.score_kind # "number"
       \/ ~InUnit(calc.arg.score_value)
       \/ calc.arg.passed_kind \notin {"true", "false"}
       \/ calc.arg.message_kind = "null"

\* the script did not produce a result: no path, could not be run, timed
\* out, exited non-zero or printed malformed output
C22_Failure ==
    \/ ~calc.arg.script
    \/ calc.arg.run \in {"timeout", "oserror", "nonzero"}
    \/ C22_Malformed

\* C22: the script grader's grade never raises; a missing script path, a
\* non-zero exit, malformed output and a timeout each give score 0 and
\* passed false with a message naming the cause, and only the timeout gives
\* the timeout message.
C22_ScriptFailures ==
    C22_Called =>
        /\ ~calc.out.raised
        /\ C22_Failure =>
               /\ Eq(calc.out.score, Frac(0, 1))
               /\ ~calc.out.passed
               /\ calc.out.message \in {"No script path configured", "Script timed out",
                                        "Script error", "Script failed"}
        /\ calc.out.message = "Script timed out"
               <=> calc.arg.script /\ calc.arg.run = "timeout"

----------------------------------------------------------------------------
\* EvalResult.to_json / from_json

\* Python values held by the free-form fields (dict[str, Any])
PyNone == [t |-> "None"]
PyInt(n) == [t |-> "int", i |-> n]
PyFloat(q) == [t |-> "float", f |-> q]
PyNaN == [t |-> "nan"]
PyStr(x) == [t |-> "str", s |-> x]
PyIsoStr(n) == [t |-> "str", iso |-> n]
PyDatetime(n) == [t |-> "datetime", dt |-> n]
PyList(xs) == [t |-> "list", items |-> xs]
PyTuple(xs) == [t |-> "tuple", elts |-> xs]

\* JSON values; a string is its text, or the ISO text of a datetime
JNull == [j |-> "null"]
JInt(n) == [j |-> "int", i |-> n]
JFloat(q) == [j |-> "float", f |-> q]
JString(x) == [j |-> "string", s |-> x]
JIso(n) == [j |-> "string", iso |-> n]
JArray(xs) == [j |-> "array", items |-> xs]

\* model_dump_json of a value of type Any: the JSON value is chosen by the
\* value's runtime type; a tuple is written as an array, a datetime as its
\* ISO string, nan as null
RECURSIVE DumpAny(_)
DumpAny(x) ==
    CASE x.t = "None" -> JNull
      [] x.t = "int" -> JInt(x.i)
      [] x.t = "float" -> JFloat(x.f)
      [] x.t = "nan" -> JNull
      [] x.t = "str" -> IF "iso" \in DOMAIN x THEN JIso(x.iso) ELSE JString(x.s)
      [] x.t = "datetime" -> JIso(x.dt)
      [] x.t = "list" -> JArray([k \in 1..Len(x.items) |-> DumpAny(x.items[k])])
      [] x.t = "tuple" -> JArray([k \in 1..Len(x.elts) |-> DumpAny(x.elts[k])])

\* as LoadArray, for a parser that reads an array as a tuple
LoadArrayMutant(xs) == PyTuple(xs)

\* a JSON array read into a field of type Any is a list
LoadArray(xs) == PyList(xs)

\* model_validate_json into a field of type Any: the Python value is chosen
\* by the JSON value alone
RECURSIVE LoadAny(_)
LoadAny(y) ==
    CASE y.j = "null" -> PyNone
      [] y.j = "int" -> PyInt(y.i)
      [] y.j = "float" -> PyFloat(y.f)
      [] y.j = "string" -> IF "iso" \in DOMAIN y THEN PyIsoStr(y.iso) ELSE PyStr(y.s)
      [] y.j = "array" -> LoadArray([k \in 1..Len(y.items) |-> LoadAny(y.items[k])])

\* a field of type X | None
DumpOptional(x, Dump(_)) == IF x = PyNone THEN JNull ELSE Dump(x)
LoadOptional(y, Load(_)) == IF y = JNull THEN PyNone ELSE Load(y)

\* results.py 11-20: GraderResult, its typed fields by their types and details
\* as Any
DumpGraderResult(g) ==
    [score |-> JFloat(g.score), passed |-> g.passed, details |-> DumpAny(g.details)]
LoadGraderResult(y) ==
    [score |-> y.score.f, passed |-> y.passed, details |-> LoadAny(y.details)]

\* results.py 106-114: MetricResult
DumpMetricResult(m) ==
    [name |-> JString(m.name), score |-> JFloat(m.score), details |-> DumpAny(m.details)]
LoadMetricResult(y) ==
    [name |-> y.name.s, score |-> y.score.f, details |-> LoadAny(y.details)]

\* results.py 35-51: TrialResult
DumpTrialResult(t) ==
    [trial_id |-> JInt(t.trial_id), status |-> JString(t.status),
     grader_results |-> [k \in 1..Len(t.grader_results) |->
                            DumpGraderResult(t.grader_results[k])],
     error |-> DumpOptional(t.error, DumpAny)]
LoadTrialResult(y) ==
    [trial_id |-> y.trial_id.i, status |-> y.status.s,
     grader_results |-> [k \in 1..Len(y.grader_results) |->
                            LoadGraderResult(y.grader_results[k])],
     error |-> LoadOptional(y.error, LoadAny)]

\* results.py 69-76: TaskAggregate
DumpTaskAggregate(a) == [mean_score |-> JFloat(a.mean_score)]
LoadTaskAggregate(y) == [mean_score |-> y.mean_score.f]

\* results.py 79-86: TaskResult
DumpTaskResult(t) ==
    [id |-> JString(t.id), status |-> JString(t.status),
     trials |-> [k \in 1..Len(t.trials) |-> DumpTrialResult(t.trials[k])],
     aggregate |-> DumpOptional(t.aggregate, DumpTaskAggregate)]
LoadTaskResult(y) ==
    [id |-> y.id.s, status |-> y.status.s,
     trials |-> [k \in 1..Len(y.trials) |-> LoadTrialResult(y.trials[k])],
     aggregate |-> LoadOptional(y.aggregate, LoadTaskAggregate)]

\* results.py 154-156: EvalResult.to_json; timestamp is a datetime, written
\* as its ISO string
to_json(r) ==
    [eval_id |-> JString(r.eval_id), timestamp |-> JIso(r.timestamp),
     summary |-> [total_tasks |-> JInt(r.summary.total_tasks),
                  pass_rate |-> JFloat(r.summary.pass_rate)],
     metrics |-> [k \in 1..Len(r.metrics) |-> DumpMetricResult(r.metrics[k])],
     tasks |-> [k \in 1..Len(r.tasks) |-> DumpTaskResult(r.tasks[k])],
     metadata |-> DumpAny(r.metadata)]

\* results.py 158-161: EvalResult.from_json; the timestamp field parses the
\* ISO string back into a datetime
from_json(y) ==
    [eval_id |-> y.eval_id.s, timestamp |-> y.timestamp.iso,
     summary |-> [total_tasks |-> y.summary.total_tasks.i,
                  pass_rate |-> y.summary.pass_rate.f],
     metrics |-> [k \in 1..Len(y.metrics) |-> LoadMetricResult(y.metrics[k])],
     tasks |-> [k \in 1..Len(y.tasks) |-> LoadTaskResult(y.tasks[k])],
     metadata |-> LoadAny(y.metadata)]

\* values a caller or a grader can put under a key of details or metadata
AnyValues ==
    {PyFloat(Frac(1, 2)), PyList(<<PyInt(1)>>), PyTuple(<<PyInt(1)>>), PyNaN}

JsonTrials ==
    [trial_id : {1}, status : {"passed"},
     grader_results : {<<>>} \cup {<<[score |-> Frac(1, 1), passed |-> TRUE,
                                      details |-> d]>> : d \in AnyValues},
     error : {PyNone, PyStr("Trial timed out")}]

JsonTasks ==
    [id : {"task"}, status : {"passed"}, trials : SeqsUpTo(JsonTrials, 1),
     aggregate : {PyNone, [mean_score |-> Frac(1, 1)]}]

JsonMetrics ==
    {<<>>} \cup {<<[name |-> "task_completion", score |-> Frac(1, 1), details |-> d]>> :
                    d \in {PyNone, PyTuple(<<PyInt(1)>>)}}

\* the EvalResults serialized
JsonCalls ==
    \E ts \in SeqsUpTo(JsonTasks, MaxTasks), ms \in JsonMetrics :
    \E md \in {PyStr("v1"), PyDatetime(1)} :
        calc = Call("EvalResult.to_json",
                    [eval_id |-> "test-001", timestamp |-> 1,
                     summary |-> [total_tasks |-> Len(ts), pass_rate |-> Frac(1, 1)],
                     metrics |-> ms, tasks |-> ts, metadata |-> md])

\* r.to_json(): the text is handed to from_json, r kept for comparison
ToJson ==
    /\ calc.fn = "EvalResult.to_json"
    /\ calc' = Call("EvalResult.from_json", [json |-> to_json(calc.arg), r |-> calc.arg])
    /\ UNCHANGED <<runVars, rpc>>

FromJson == Return("EvalResult.from_json", from_json(calc.arg.json))

InitJson == InitCalc(JsonCalls)

NextJson == ToJson \/ FromJson

SpecJson == InitJson /\ [][NextJson]_vars

C23_Called == calc.done /\ calc.fn = "EvalResult.from_json"

\* the values held by the free-form fields of r
C23_FreeForm(r) ==
    {r.metadata}
    \cup {r.metrics[k].details : k \in 1..Len(r.metrics)}
    \cup UNION {UNION {{r.tasks[i].trials[k].grader_results[g].details :
                           g \in 1..Len(r.tasks[i].trials[k].grader_results)} :
                       k \in 1..Len(r.tasks[i].trials)} :
                i \in 1..Len(r.tasks)}

\* x is a value JSON has a form of its own for: None, an int, a finite
\* float, a str, or a list of such values
RECURSIVE C23_JsonNative(_)
C23_JsonNative(x) ==
    \/ x.t \in {"None", "int", "float", "str"}
    \/ x.t = "list" /\ \A k \in 1..Len(x.items) : C23_JsonNative(x.items[k])

\* what JSON keeps of a free-form value: a tuple as a list, a datetime as
\* its ISO text, nan as None
RECURSIVE C23_Kept(_)
C23_Kept(x) ==
    CASE x.t = "tuple" -> PyList([k \in 1..Len(x.elts) |-> C23_Kept(x.elts[k])])
      [] x.t = "list" -> PyList([k \in 1..Len(x.items) |-> C23_Kept(x.items[k])])
      [] x.t = "datetime" -> PyIsoStr(x.dt)
      [] x.t = "nan" -> PyNone
      [] OTHER -> x

\* r with every free-form value replaced by what JSON keeps of it
C23_Expected(r) ==
    [r EXCEPT
       !.metadata = C23_Kept(@),
       !.metrics = [k \in 1..Len(@) |-> [@[k] EXCEPT !.details = C23_Kept(@)]],
       !.tasks = [i \in 1..Len(@) |->
          [@[i] EXCEPT !.trials = [k \in 1..Len(@) |->
             [@[k] EXCEPT !.grader_results = [g \in 1..Len(@) |->
                [@[g] EXCEPT !.details = C23_Kept(@)]]]]]]]

----------------------------------------------------------------------------
\* JSON-RPC server

\* protocol.py 11-24: ErrorCode
INVALID_REQUEST == -32600
METHOD_NOT_FOUND == -32601
INVALID_PARAMS == -32602
EVAL_NOT_FOUND == -32000

\* a message of the client; id = 0 stands for a message without "id";
\* method "invalid" for a message JSONRPCRequest(**data) rejects; param is the
\* required parameter of the method ("path" or "runId"): "absent", "bad" (a
\* path that does not exist, a run id that is not known) or "ok"
Request(id, method, param) == [id |-> id, method |-> method, param |-> param]

\* server.py 99-108: the methods that have a handler (those followed here)
Handlers == {"eval.validate", "eval.run", "run.cancel"}

\* methods.py 18-24, 34-41: the run of the RunManager; history lists the
\* values written to run["status"], task is where the asyncio task of
\* _run_eval stands
NoRunEntry ==
    [status |-> "none", history |-> <<>>, result |-> FALSE, error |-> FALSE,
     in_tasks |-> FALSE, task |-> "none", must_cancel |-> FALSE, outcome |-> "none"]

\* methods.py 43-57: update_run_status
update_run_status(run, status, has_result, has_error) ==
    IF run.status = "none" THEN run
    ELSE [run EXCEPT !.status = status, !.history = Append(@, status),
                     !.result = @ \/ has_result, !.error = @ \/ has_error]

\* methods.py 98-105: cleanup_task
cleanup_task(run) == [run EXCEPT !.in_tasks = FALSE]

\* methods.py 79-96: cancel_run; run_id is "ok" for the id of the run held
cancel_run(run, run_id) ==
    IF run_id # "ok" \/ run.status = "none" THEN [cancelled |-> FALSE, run |-> run]
    ELSE IF run.in_tasks
    THEN [cancelled |-> TRUE,
          run |-> update_run_status([run EXCEPT !.must_cancel = (run.task # "done")],
                                    "cancelled", FALSE, FALSE)]
    ELSE [cancelled |-> FALSE, run |-> run]

\* what a handler does: it returns a result or raises; run is the run entry
\* afterwards
HandlerReturns(run) == [raises |-> "None", code |-> 0, run |-> run]
HandlerRaises(exception, code, run) == [raises |-> exception, code |-> code, run |-> run]

\* methods.py 303-336 (eval.validate), 130-181 (eval.run), 457-481
\* (run.cancel), server.py 110-114 (no handler: `raise JSONRPCError...`, and
\* JSONRPCError is a pydantic model, so the raise statement itself raises
\* TypeError)
dispatch_method(method, param, run) ==
    IF method \notin Handlers THEN HandlerRaises("TypeError", METHOD_NOT_FOUND, run)
    ELSE IF param = "absent" THEN HandlerRaises("JSONRPCException", INVALID_PARAMS, run)
    ELSE IF method \in {"eval.validate", "eval.run"} /\ param = "bad"
    THEN HandlerRaises("JSONRPCException", EVAL_NOT_FOUND, run)
    ELSE IF method = "eval.validate" THEN HandlerReturns(run)
    ELSE IF method = "eval.run"
    THEN HandlerReturns([NoRunEntry EXCEPT !.status = "running", !.history = <<"running">>,
                                     !.in_tasks = TRUE, !.task = "created"])
    ELSE IF cancel_run(run, param).cancelled THEN HandlerReturns(cancel_run(run, param).run)
    ELSE HandlerRaises("JSONRPCException", INVALID_PARAMS, cancel_run(run, param).run)

\* as ExceptJSONRPCError, for an error class that derives from Exception and
\* is what the handlers raise
ExceptJSONRPCErrorMutant(exception) == "caught"

\* server.py 79: `except JSONRPCError as e` is evaluated for whatever the
\* try body raised; JSONRPCError (protocol.py 49) does not derive from
\* BaseException, so the evaluation raises TypeError
ExceptJSONRPCError(exception) == "TypeError"

\* protocol.py 139-170: a JSONRPCResponse with its id (0 for null) and the
\* code of its error (0 for a result); NoResponse for the None that
\* _handle_request returns
Response(id, code) == [sent |-> TRUE, id |-> id, code |-> code]
NoResponse == [sent |-> FALSE, id |-> 0, code |-> 0]

\* server.py 47-86: _handle_request
handle_request(request, run) ==
    IF request.method = "invalid"
    THEN [response |-> Response(0, INVALID_REQUEST), raises |-> "None",
          run |-> run]
    ELSE IF request.id = 0
    THEN [response |-> NoResponse, raises |-> "None", run |-> run]
    ELSE LET d == dispatch_method(request.method, request.param, run)
         IN  IF d.raises = "None"
             THEN [response |-> Response(request.id, 0), raises |-> "None",
                   run |-> d.run]
             ELSE IF ExceptJSONRPCError(d.raises) = "caught"
             THEN [response |-> Response(request.id, d.code),
                   raises |-> "None", run |-> d.run]
             ELSE [response |-> NoResponse, raises |-> ExceptJSONRPCError(d.raises),
                   run |-> d.run]

\* server.py 116-151: one turn of the serve loop: a message is read and
\* handled, the response (if any) written; an exception leaving
\* _handle_request leaves serve, which closes the transport
Serve ==
    /\ rpc.running
    /\ rpc.inbox # <<>>
    /\ LET request == Head(rpc.inbox)
           h == handle_request(request, rpc.run)
       IN  rpc' = [rpc EXCEPT
                     !.inbox = Tail(@),
                     !.handled = Append(@, [request |-> request, response |-> h.response,
                                            raises |-> h.raises]),
                     !.written = IF h.response.sent THEN Append(@, h.response) ELSE @,
                     !.running = (h.raises = "None"),
                     !.run = h.run]
    /\ UNCHANGED <<runVars, calc>>

\* server.py 138-141: read_message returns None, the connection is closed
ConnectionClosed ==
    /\ rpc.running
    /\ rpc.inbox = <<>>
    /\ rpc' = [rpc EXCEPT !.running = FALSE]
    /\ UNCHANGED <<runVars, calc>>

\* schemas/results.py 117-127: the fields of EvalSummary
EvalSummaryFields ==
    {"total_tasks", "passed", "failed", "errors", "skipped", "pass_rate",
     "composite_score", "duration_ms"}

\* methods.py 216-221: the fields of result.summary the completion
\* notification reads
CompletionFields == {"total_tasks", "tasks_passed", "tasks_failed", "pass_rate"}

\* methods.py 192-208: the task of _run_eval starts and awaits run_async
StartRunEval ==
    /\ rpc.run.task = "created"
    /\ ~rpc.run.must_cancel
    /\ rpc' = [rpc EXCEPT !.run.task = "run_async"]
    /\ UNCHANGED <<runVars, calc>>

\* methods.py 208-222, 226-232: run_async returns; the status is updated, the
\* notification is built (AttributeError if it reads a field the summary
\* does not have, handled by `except Exception`) and sent
RunAsyncReturns ==
    /\ rpc.run.task = "run_async"
    /\ ~rpc.run.must_cancel
    /\ LET complete == update_run_status(rpc.run, "complete", TRUE, FALSE)
           after == IF CompletionFields \subseteq EvalSummaryFields THEN complete
                    ELSE update_run_status(complete, "failed", FALSE, TRUE)
       IN  rpc' = [rpc EXCEPT !.run = [after EXCEPT !.task = "notify",
                                                    !.outcome = "returned"]]
    /\ UNCHANGED <<runVars, calc>>

\* methods.py 226-232: run_async raises
RunAsyncRaises ==
    /\ rpc.run.task = "run_async"
    /\ ~rpc.run.must_cancel
    /\ rpc' = [rpc EXCEPT !.run = [update_run_status(rpc.run, "failed", FALSE, TRUE)
                                     EXCEPT !.task = "notify", !.outcome = "raised"]]
    /\ UNCHANGED <<runVars, calc>>

\* methods.py 214, 229, 233-234: the eval.complete notification has been
\* sent, the task ends through `finally`
NotificationSent ==
    /\ rpc.run.task = "notify"
    /\ ~rpc.run.must_cancel
    /\ rpc' = [rpc EXCEPT !.run = [cleanup_task(rpc.run) EXCEPT !.task = "done"]]
    /\ UNCHANGED <<runVars, calc>>

\* methods.py 223-225, 233-234: the cancellation requested by cancel_run
\* reaches the task at the await it is suspended in; a task that has not
\* started never runs, so neither handler nor `finally` does
Cancelled ==
    /\ rpc.run.must_cancel
    /\ rpc.run.task \in {"created", "run_async", "notify"}
    /\ rpc' = [rpc EXCEPT !.run =
                 [(CASE rpc.run.task = "created" -> rpc.run
                     [] rpc.run.task = "run_async" ->
                          cleanup_task(update_run_status(rpc.run, "cancelled",
                                                         FALSE, FALSE))
                     [] OTHER -> cleanup_task(rpc.run))
                  EXCEPT !.task = "done", !.must_cancel = FALSE]]
    /\ UNCHANGED <<runVars, calc>>

\* the messages a client sends
Requests ==
    {Request(id, m, "ok") : id \in 0..1, m \in {"invalid", "unknown.method"}}
    \cup {Request(id, m, q) : id \in 0..1, m \in Handlers, q \in {"absent", "bad", "ok"}}

\* at most one eval.run that starts a run, so that the RunManager holds one run
OneRun(msgs) ==
    Cardinality({k \in 1..Len(msgs) : msgs[k] \in {Request(1, "eval.run", "ok")}}) <= 1

InitRpc ==
    /\ InitRun(NoRun)
    /\ calc = NoCalc
    /\ \E msgs \in SeqsUpTo(Requests, MaxMessages) :
           /\ OneRun(msgs)
           /\ rpc = [running |-> TRUE, inbox |-> msgs, handled |-> <<>>,
                     written |-> <<>>, run |-> NoRunEntry]

NextRpc ==
    \/ Serve
    \/ ConnectionClosed
    \/ StartRunEval
    \/ RunAsyncReturns
    \/ RunAsyncRaises
    \/ NotificationSent
    \/ Cancelled

SpecRpc == InitRpc /\ [][NextRpc]_vars

\* the error code the claim states for a request (0: a result)
C24_Code(request) ==
    CASE request.method = "invalid" -> INVALID_REQUEST
      [] request.method \notin Handlers -> METHOD_NOT_FOUND
      [] request.param = "absent" -> INVALID_PARAMS
      [] request.method \in {"eval.validate", "eval.run"} /\ request.param = "bad" ->
            EVAL_NOT_FOUND
      [] OTHER -> 0

\* C24: for every request that carries an id the server writes exactly one
\* response with that id and keeps serving; for a request without id it
\* writes nothing; an unknown method gives error -32601, a missing required
\* parameter -32602, a nonexistent eval path -32000, a structurally invalid
\* request -32600.
C24_OneResponse ==
    rpc.running \/ rpc.handled # <<>> =>
        \A k \in 1..Len(rpc.handled) :
            LET h == rpc.handled[k]
            IN  /\ h.raises = "None"
                /\ h.request.id # 0 /\ h.request.method # "invalid" =>
                       /\ h.response.sent
                       /\ h.response.id = h.request.id
                       /\ C24_Code(h.request) # 0 => h.response.code = C24_Code(h.request)
                /\ h.request.method = "invalid" =>
                       h.response.sent /\ h.response.code = INVALID_REQUEST
                /\ h.request.id = 0 /\ h.request.method # "invalid" => ~h.response.sent

C28_Terminal == {"complete", "failed", "cancelled"}

\* C28: a run's status starts as "running" and moves to exactly one terminal
\* status, which then never changes; a run whose eval finished successfully
\* ends with status "complete" and its result stored.
C28_StatusLifecycle ==
    rpc.run.status # "none" =>
        /\ rpc.run.history[1] = "running"
        /\ \A k \in 1..(Len(rpc.run.history) - 1) :
               rpc.run.history[k] \in C28_Terminal =>
                   rpc.run.history[k + 1] = rpc.run.history[k]
        /\ rpc.run.task = "done" /\ rpc.run.outcome = "returned" =>
               rpc.run.status = "complete" /\ rpc.run.result

----------------------------------------------------------------------------
\* Grader results of a trial

\* C25: a trial whose executor call and graders all return holds one grader
\* result per configured grader, suite-level count plus task-specific count,
\* also when a task-specific grader has the name of a suite-level grader.
C25_OneResultPerGrader ==
    \A i \in Tasks : \A k \in 1..Len(trials[i]) :
        Returned(i, k) =>
            Cardinality(DOMAIN trials[i][k].grader_results)
                = Len(cfg.suite) + Len(cfg.task_graders)

C26_Called == calc.done /\ calc.fn = "_run_trial.ToolCallGrader"

\* C26: run by the trial on a trial whose executor emitted k tool events,
\* the tool-call grader records k tool calls, so a max_calls below k gives a
\* failing result.
C26_ToolCallCount ==
    C26_Called =>
        /\ ~calc.out.raised
        /\ calc.out.total_tool_calls = RunnerToolCalls(calc.arg.events)
        /\ calc.arg.max_calls >= 0
              /\ calc.arg.max_calls < RunnerToolCalls(calc.arg.events)
              => ~calc.out.passed

----------------------------------------------------------------------------
\* task_complete numbering of the parallel scheduler

\* the task_complete events reported so far for task i
C27_Completions(i) == SelectSeq(events[i], LAMBDA e : e.event = "task_complete")

\* the number of task_complete events reported so far
C27_Emitted == Cardinality({i \in Tasks : C27_Completions(i) # <<>>})

\* the task_num values carried by the task_complete events reported so far
C27_Numbers == {C27_Completions(i)[1].task_num : i \in {j \in Tasks : C27_Completions(j) # <<>>}}

\* after every step: one task_complete per task at most, distinct tasks carry
\* distinct numbers, and the numbers are 1..(events reported); all N once the
\* run has returned
C27_EachOnce ==
    cfg.parallel =>
        /\ \A i \in Tasks : Len(C27_Completions(i)) <= 1
        /\ C27_Numbers = 1..C27_Emitted
        /\ C27_Emitted = completed
        /\ pc = "returned" => C27_Numbers = 1..cfg.n_tasks

\* a step that reports a task_complete event gives it the number of
\* task_complete events reported before it, plus one
C27_InOrder ==
    cfg.parallel =>
        \A i \in Tasks :
            C27_Completions(i) = <<>> /\ C27_Completions(i)' # <<>> =>
                C27_Completions(i)'[1].task_num = C27_Emitted + 1

\* C27: in parallel mode the task_complete events of a run of N tasks carry
\* 1, 2, ..., N in the order they are reported, each value exactly once
\* under every interleaving of the tasks.
C27_CompletionCount == []C27_EachOnce /\ [][C27_InOrder]_vars

\* a returned parallel run of two tasks in which the first task completed
\* second: its task_start carries 1 and its task_complete carries 2
C27_Witness ==
    /\ cfg.parallel /\ cfg.n_tasks = 2 /\ pc = "returned"
    /\ events[1][1].event = "task_start" /\ events[1][1].task_num = 1
    /\ C27_Completions(1)[1].task_num = 2
    /\ C27_Completions(2)[1].task_num = 1

----------------------------------------------------------------------------
\* The runner's composite score and CompositeMetric

C29_Called == calc.done /\ calc.fn = "composite_score.both"

\* the weights of the metric map are all zero
C29_ZeroWeight ==
    \A j \in 1..Len(calc.arg.metrics) : calc.arg.metrics[j].weight.n = 0

\* C29: for every metric map with non-negative weights,
\* _compute_composite_score returns the score CompositeMetric.calculate
\* returns, also for the empty map and for a zero total weight.
C29_SameScore ==
    C29_Called =>
        /\ ~calc.out.metric.raised
        /\ Eq(calc.out.runner, calc.out.metric.score)

\* two metrics with positive scores whose weights are both zero: the runner
\* returns 0 early, the metric divides a zero weighted sum by 1
C29_Witness ==
    /\ C29_Called
    /\ Len(calc.arg.metrics) = 2
    /\ C29_ZeroWeight
    /\ \A j \in 1..2 : calc.arg.metrics[j].score.n > 0
    /\ calc.out.runner.n = 0 /\ calc.out.metric.score.n = 0

----------------------------------------------------------------------------
\* Task statuses and the summary of an EvalResult

\* the number of TaskResults with status "partial"
C30_Partial == Cardinality({j \in 1..Len(results) : results[j].status = "partial"})

\* every trial of the TaskResult ended in error or timeout
C30_AllErrored(r) ==
    \A k \in 1..Len(r.trials) : r.trials[k].status \in {"error", "timeout"}

====
